---------------------------- MODULE Spec2Model ----------------------------
(***************************************************************************)
(* A model of serde-llsd: the LLSD value tree, its binary, XML and         *)
(* notation codecs and the format-detecting decoders of de/mod.rs.         *)
(*                                                                         *)
(* Text (&str, String) is a sequence of Unicode code points; a byte slice  *)
(* (&[u8], Vec<u8>) is a sequence of numbers 0..255.  A value tree is a     *)
(* record [t |-> variant, v |-> payload].  A Result is a record             *)
(* [ok, val, err]: Ok(val) or Err(err).                                     *)
(***************************************************************************)
EXTENDS Integers, Sequences, FiniteSets, TLC

VARIABLES
    pc,        \* "idle", "encoded", "stripped", "input", "decoded"
    value,     \* the tree handed to an encoder (NoValue when none)
    fmt,       \* what wire holds: an encoder's output, its payload, or "bytes"
    wire,      \* the message, a sequence of bytes
    parts,     \* how a received message was built: [w, kind, p]
    decoder,   \* the decode entry point that was called
    route,     \* the codec that entry point invoked, and on what input
    result     \* what the decode call returned

vars == <<pc, value, fmt, wire, parts, decoder, route, result>>

\* a local binding (Rust's let): f is a function [r \in {e} |-> body], and
\* Bind(f) is body with r naming the value of e, which is computed once
Bind(f) == f[CHOOSE only \in DOMAIN f : TRUE]

(***************************************************************************)
(* Characters and literals                                                 *)
(***************************************************************************)
Ascii ==
    <<" ","!","\"","#","$","%","&","'","(",")","*","+",",","-",".","/",
      "0","1","2","3","4","5","6","7","8","9",":",";","<","=",">","?","@",
      "A","B","C","D","E","F","G","H","I","J","K","L","M","N","O","P","Q",
      "R","S","T","U","V","W","X","Y","Z","[","\\","]","^","_","(backquote)",
      "a","b","c","d","e","f","g","h","i","j","k","l","m","n","o","p","q",
      "r","s","t","u","v","w","x","y","z","{","|","}","~">>

\* code point of a one-character string
CharCode ==
    [c \in {Ascii[i] : i \in 1..Len(Ascii)} \cup {"\n", "\t", "\r"} |->
        IF c = "\n" THEN 10
        ELSE IF c = "\t" THEN 9
        ELSE IF c = "\r" THEN 13
        ELSE 31 + (CHOOSE i \in 1..Len(Ascii) : Ascii[i] = c)]

Ch(c) == CharCode[c]

\* a literal, written as a tuple of one-character strings
Str(t) == [i \in 1..Len(t) |-> CharCode[t[i]]]

Tail2(s, p) == SubSeq(s, p, Len(s))          \* s[p..], 1-based
StartsWith(s, pre) == Len(s) >= Len(pre) /\ SubSeq(s, 1, Len(pre)) = pre

RECURSIVE Concat(_)
Concat(ss) == IF ss = <<>> THEN <<>> ELSE Head(ss) \o Concat(Tail(ss))

\* lexicographic order on sequences of numbers
RECURSIVE SeqLess(_, _)
SeqLess(a, b) ==
    IF b = <<>> THEN FALSE
    ELSE IF a = <<>> THEN TRUE
    ELSE IF Head(a) # Head(b) THEN Head(a) < Head(b)
    ELSE SeqLess(Tail(a), Tail(b))

(***************************************************************************)
(* UTF-8 (Rust's str::as_bytes and std::str::from_utf8)                    *)
(***************************************************************************)
Utf8Char(c) ==
    IF c < 128 THEN <<c>>
    ELSE IF c < 2048 THEN <<192 + (c \div 64), 128 + (c % 64)>>
    ELSE IF c < 65536
        THEN <<224 + (c \div 4096), 128 + ((c \div 64) % 64), 128 + (c % 64)>>
    ELSE <<240 + (c \div 262144), 128 + ((c \div 4096) % 64),
           128 + ((c \div 64) % 64), 128 + (c % 64)>>

\* the first position in p..Len(s) whose element is in set, or 0
FirstIn(s, p, set) ==
    IF \E i \in p..Len(s) : s[i] \in set
        THEN CHOOSE i \in p..Len(s) : s[i] \in set /\ \A j \in p..(i - 1) : s[j] \notin set
    ELSE 0

\* the first position at or after p whose element is not in set
SkipWhile(s, p, set) ==
    IF \E i \in p..Len(s) : s[i] \notin set
        THEN CHOOSE i \in p..Len(s) : s[i] \notin set /\ \A j \in p..(i - 1) : s[j] \in set
    ELSE IF p > Len(s) THEN p ELSE Len(s) + 1

RECURSIVE as_bytes(_)
\* str::as_bytes: the UTF-8 encoding of each character, in order
as_bytes(s) ==
    IF s = <<>> THEN <<>>
    ELSE IF Len(s) = 1 THEN Utf8Char(s[1])
    ELSE Bind([h \in {Len(s) \div 2} |->
            as_bytes(SubSeq(s, 1, h)) \o as_bytes(SubSeq(s, h + 1, Len(s)))])

IsCont(b, p) == p <= Len(b) /\ b[p] >= 128 /\ b[p] <= 191

\* from_utf8: [ok, val]; val is the decoded text
RECURSIVE Utf8Decode(_, _, _)
Utf8Decode(b, p, acc) ==
    IF p > Len(b) THEN [ok |-> TRUE, val |-> acc]
    ELSE Bind([c \in {b[p]} |->
        IF c < 128 THEN
    Bind([q \in {SkipWhile(b, p, 0..127)} |->
               Utf8Decode(b, q, acc \o SubSeq(b, p, q - 1))])
        ELSE IF c >= 194 /\ c <= 223 /\ IsCont(b, p + 1)
            THEN Utf8Decode(b, p + 2, Append(acc, (c - 192) * 64 + (b[p+1] - 128)))
        ELSE IF c >= 224 /\ c <= 239 /\ IsCont(b, p + 1) /\ IsCont(b, p + 2)
                /\ (c = 224 => b[p+1] >= 160) /\ (c = 237 => b[p+1] <= 159)
            THEN Utf8Decode(b, p + 3,
                    Append(acc, (c - 224) * 4096 + (b[p+1] - 128) * 64 + (b[p+2] - 128)))
        ELSE IF c >= 240 /\ c <= 244 /\ IsCont(b, p + 1) /\ IsCont(b, p + 2)
                /\ IsCont(b, p + 3)
                /\ (c = 240 => b[p+1] >= 144) /\ (c = 244 => b[p+1] <= 143)
            THEN Utf8Decode(b, p + 4,
                    Append(acc, (c - 240) * 262144 + (b[p+1] - 128) * 4096
                                + (b[p+2] - 128) * 64 + (b[p+3] - 128)))
        ELSE [ok |-> FALSE, val |-> <<>>]])

from_utf8(b) == Utf8Decode(b, 1, <<>>)

(***************************************************************************)
(* The value tree (lib.rs) and Results                                     *)
(***************************************************************************)
Undefined  == [t |-> "Undefined", v |-> <<>>]
Boolean(x) == [t |-> "Boolean", v |-> x]
Real(x)    == [t |-> "Real", v |-> x]        \* the 8 bytes of the f64, big-endian
Integer(x) == [t |-> "Integer", v |-> x]
UUID(x)    == [t |-> "UUID", v |-> x]        \* 16 bytes
String(x)  == [t |-> "String", v |-> x]
Date(x)    == [t |-> "Date", v |-> x]
URI(x)     == [t |-> "URI", v |-> x]
Binary(x)  == [t |-> "Binary", v |-> x]
Map(x)     == [t |-> "Map", v |-> x]         \* a function from keys to values
Array(x)   == [t |-> "Array", v |-> x]

NoValue == [t |-> "none", v |-> <<>>]

EmptyMap == [k \in {} |-> Undefined]

\* HashMap::insert: a later insertion of the same key replaces the value
Insert(m, k, x) == [q \in DOMAIN m \cup {k} |-> IF q = k THEN x ELSE m[q]]

\* f64 NaN: exponent all ones, mantissa not zero
IsNaN(r) ==
    /\ r[1] % 128 = 127
    /\ r[2] >= 240
    /\ (r[2] > 240 \/ \E i \in 3..8 : r[i] # 0)

\* f64 equality: NaN equals nothing, +0.0 equals -0.0
RealEq(a, b) ==
    /\ ~IsNaN(a)
    /\ ~IsNaN(b)
    /\ \/ a = b
       \/ /\ \A i \in 2..8 : a[i] = 0 /\ b[i] = 0
          /\ a[1] % 128 = 0
          /\ b[1] % 128 = 0

\* the derived PartialEq of LLSDValue
RECURSIVE ValueEq(_, _)
ValueEq(a, b) ==
    /\ a.t = b.t
    /\ IF a.t = "Array"
         THEN /\ Len(a.v) = Len(b.v)
              /\ \A i \in 1..Len(a.v) : ValueEq(a.v[i], b.v[i])
       ELSE IF a.t = "Map"
         THEN /\ DOMAIN a.v = DOMAIN b.v
              /\ \A k \in DOMAIN a.v : ValueEq(a.v[k], b.v[k])
       ELSE IF a.t = "Real" THEN RealEq(a.v, b.v)
       ELSE a.v = b.v

Ok(x)  == [ok |-> TRUE, val |-> x, err |-> ""]
Err(e) == [ok |-> FALSE, val |-> NoValue, err |-> e]
NoResult == [ok |-> FALSE, val |-> NoValue, err |-> "not called"]

\* two Results agree: both Ok with equal trees, or both the same error
ResultEq(r, s) ==
    /\ r.ok = s.ok
    /\ IF r.ok THEN ValueEq(r.val, s.val) ELSE r.err = s.err

\* a parser's progress: Ok(val) with the cursor at pos, or Err(err)
POk(x, p)  == [ok |-> TRUE, val |-> x, pos |-> p, err |-> ""]
PErr(e)    == [ok |-> FALSE, val |-> NoValue, pos |-> 0, err |-> e]
ToResult(r) == IF r.ok THEN Ok(r.val) ELSE Err(r.err)

\* HashMap iteration order is not fixed: the keys, ascending or descending
RECURSIVE SortKeys(_)
SortKeys(ks) ==
    IF ks = {} THEN <<>>
    ELSE Bind([m \in {CHOOSE k \in ks : \A q \in ks \ {k} : SeqLess(k, q)} |->
            <<m>> \o SortKeys(ks \ {m})])

Reverse(s) == [i \in 1..Len(s) |-> s[Len(s) + 1 - i]]

IterKeys(m, ord) ==
    IF ord = "asc" THEN SortKeys(DOMAIN m) ELSE Reverse(SortKeys(DOMAIN m))

(***************************************************************************)
(* Fixed-width integers                                                    *)
(***************************************************************************)
U32BE(n) == <<(n \div 16777216) % 256, (n \div 65536) % 256, (n \div 256) % 256, n % 256>>

\* i32::to_be_bytes: two's complement
I32BE(n) ==
    IF n >= 0 THEN U32BE(n)
    ELSE Bind([u \in {(n + 2147483647) + 1} |->
            <<128 + (u \div 16777216), (u \div 65536) % 256, (u \div 256) % 256, u % 256>>])

\* i32::from_be_bytes
I32FromBE(b) ==
    IF b[1] < 128 THEN b[1] * 16777216 + b[2] * 65536 + b[3] * 256 + b[4]
    ELSE (((b[1] - 128) * 16777216 + b[2] * 65536 + b[3] * 256 + b[4]) - 2147483647) - 1

\* u32::from_be_bytes; a length of 2^31 or more is more than any input of the
\* model holds, and is read as the largest length the model can count
U32FromBE(b) ==
    IF b[1] < 128 THEN b[1] * 16777216 + b[2] * 65536 + b[3] * 256 + b[4]
    ELSE 2147483647

\* i64::to_be_bytes, for the dates of the model (all within 32 bits)
I64BE(n) == (IF n >= 0 THEN <<0, 0, 0, 0>> ELSE <<255, 255, 255, 255>>) \o I32BE(n)

\* i64::from_be_bytes: a value beyond 32 bits is kept as its 8 bytes
I64FromBE(b) ==
    IF SubSeq(b, 1, 4) = <<0, 0, 0, 0>> /\ b[5] < 128 THEN I32FromBE(SubSeq(b, 5, 8))
    ELSE IF SubSeq(b, 1, 4) = <<255, 255, 255, 255>> /\ b[5] >= 128
        THEN I32FromBE(SubSeq(b, 5, 8))
    ELSE b

(***************************************************************************)
(* Binary codec: ser/binary.rs and de/binary.rs                            *)
(***************************************************************************)
LLSDBINARYPREFIX ==
    Str(<<"<","?"," ","L","L","S","D","/","B","i","n","a","r","y"," ","?",">","\n">>)
\* de/binary.rs has its own LLSDBINARYPREFIX, and the sentinel is that
LLSDBINARYSENTINEL ==
    Str(<<"<","?"," ","L","L","S","D","/","B","i","n","a","r","y"," ","?",">","\n">>)

\* the tag bytes ser/binary.rs writes before a String
StringTag == Str(<<"w","r","i","t","e","r">>)

\* ser/binary.rs generate_value; ord is the iteration order of the HashMaps
RECURSIVE bin_generate_value(_, _), bin_generate_entries(_, _, _), bin_generate_items(_, _)
bin_generate_value(val, ord) ==
    CASE val.t = "Undefined" -> <<Ch("!")>>
      [] val.t = "Boolean" -> IF val.v THEN <<Ch("1")>> ELSE <<Ch("0")>>
      [] val.t = "String" ->
            StringTag \o U32BE(Len(as_bytes(val.v))) \o as_bytes(val.v)
      [] val.t = "URI" ->
            <<Ch("l")>> \o U32BE(Len(as_bytes(val.v))) \o as_bytes(val.v)
      [] val.t = "Integer" -> <<Ch("i")>> \o I32BE(val.v)
      [] val.t = "Real" -> <<Ch("r")>> \o val.v
      [] val.t = "UUID" -> <<Ch("u")>> \o val.v
      [] val.t = "Binary" -> <<Ch("b")>> \o U32BE(Len(val.v)) \o val.v
      [] val.t = "Date" -> <<Ch("d")>> \o I64BE(val.v)
      [] val.t = "Map" ->
            <<Ch("{")>> \o U32BE(Cardinality(DOMAIN val.v))
                \o bin_generate_entries(val.v, IterKeys(val.v, ord), ord) \o <<Ch("}")>>
      [] val.t = "Array" ->
            <<Ch("[")>> \o U32BE(Len(val.v)) \o bin_generate_items(val.v, ord)
                \o <<Ch("]")>>

bin_generate_entries(m, keys, ord) ==
    IF keys = <<>> THEN <<>>
    ELSE Bind([key \in {Head(keys)} |->
        <<Ch("k")>> \o U32BE(Len(as_bytes(key))) \o as_bytes(key)
            \o bin_generate_value(m[key], ord)
            \o bin_generate_entries(m, Tail(keys), ord)])

bin_generate_items(items, ord) ==
    IF items = <<>> THEN <<>>
    ELSE bin_generate_value(Head(items), ord) \o bin_generate_items(Tail(items), ord)

\* to_writer that writes the value alone, without the prefix
to_bytes_no_prefix(val, ord) == bin_generate_value(val, ord)

\* ser/binary.rs to_writer / to_bytes
to_bytes(val, ord) == LLSDBINARYPREFIX \o bin_generate_value(val, ord)

\* a read that returns what is there and leaves the rest of the buffer zero
read_exact_short(b, p, n) ==
    POk([i \in 1..n |-> IF p + i - 1 <= Len(b) THEN b[p + i - 1] ELSE 0], p + n)

\* read_exact of n bytes at cursor p: [ok, val, pos]
read_exact(b, p, n) ==
    IF p + n - 1 <= Len(b) THEN POk(SubSeq(b, p, p + n - 1), p + n)
    ELSE PErr("failed to fill whole buffer")

\* read_variable: a u32 length, then that many bytes
read_variable(b, p) ==
    Bind([len \in {read_exact(b, p, 4)} |->
    IF ~len.ok THEN len
    ELSE Bind([n \in {U32FromBE(len.val)} |->
        IF n > Len(b) THEN PErr("failed to fill whole buffer")
        ELSE read_exact(b, len.pos, n)])])

\* read_variable, then std::str::from_utf8
read_text(b, p) ==
    Bind([raw \in {read_variable(b, p)} |->
    IF ~raw.ok THEN raw
    ELSE Bind([s \in {from_utf8(raw.val)} |->
        IF s.ok THEN POk(s.val, raw.pos) ELSE PErr("invalid utf-8")])])

\* de/binary.rs parse_value, on the bytes b with the cursor at p
RECURSIVE bin_parse_value(_, _), bin_parse_entries(_, _, _, _), bin_parse_items(_, _, _, _)
bin_parse_value(b, p) ==
    Bind([tc \in {read_exact(b, p, 1)} |->
    IF ~tc.ok THEN tc
    ELSE Bind([typecode \in {tc.val[1]} |->
    Bind([q \in {tc.pos} |->
        CASE typecode = Ch("!") -> POk(Undefined, q)
          [] typecode = Ch("0") -> POk(Boolean(FALSE), q)
          [] typecode = Ch("1") -> POk(Boolean(TRUE), q)
          [] typecode = Ch("s") ->
    Bind([r \in {read_text(b, q)} |->
                IF r.ok THEN POk(String(r.val), r.pos) ELSE r])
          [] typecode = Ch("l") ->
    Bind([r \in {read_text(b, q)} |->
                IF r.ok THEN POk(URI(r.val), r.pos) ELSE r])
          [] typecode = Ch("i") ->
    Bind([r \in {read_exact(b, q, 4)} |->
                IF r.ok THEN POk(Integer(I32FromBE(r.val)), r.pos) ELSE r])
          [] typecode = Ch("r") ->
    Bind([r \in {read_exact(b, q, 8)} |->
                IF r.ok THEN POk(Real(r.val), r.pos) ELSE r])
          [] typecode = Ch("u") ->
    Bind([r \in {read_exact(b, q, 16)} |->
                IF r.ok THEN POk(UUID(r.val), r.pos) ELSE r])
          [] typecode = Ch("b") ->
    Bind([r \in {read_variable(b, q)} |->
                IF r.ok THEN POk(Binary(r.val), r.pos) ELSE r])
          [] typecode = Ch("d") ->
    Bind([r \in {read_exact(b, q, 8)} |->
                IF r.ok THEN POk(Date(I64FromBE(r.val)), r.pos) ELSE r])
          [] typecode = Ch("{") ->
    Bind([count \in {read_exact(b, q, 4)} |->
                IF ~count.ok THEN count
                ELSE Bind([es \in {bin_parse_entries(b, count.pos, U32FromBE(count.val), EmptyMap)} |->
                    IF ~es.ok THEN es
                    ELSE Bind([close \in {read_exact(b, es.pos, 1)} |->
                        IF ~close.ok THEN close
                        ELSE IF close.val[1] # Ch("}")
                            THEN PErr("Binary LLSD map did not end properly with }")
                        ELSE POk(Map(es.val), close.pos)])])])
          [] typecode = Ch("[") ->
    Bind([count \in {read_exact(b, q, 4)} |->
                IF ~count.ok THEN count
                ELSE Bind([es \in {bin_parse_items(b, count.pos, U32FromBE(count.val), <<>>)} |->
                    IF ~es.ok THEN es
                    ELSE Bind([close \in {read_exact(b, es.pos, 1)} |->
                        IF ~close.ok THEN close
                        ELSE IF close.val[1] # Ch("]")
                            THEN PErr("Binary LLSD array did not end properly with ]")
                        ELSE POk(Array(es.val), close.pos)])])])
          [] OTHER -> PErr("Binary LLSD, unexpected type code")])])])

RECURSIVE bin_parse_entries_any_prefix(_, _, _, _)
\* the loop over the entries without its test of the key prefix byte
bin_parse_entries_any_prefix(b, p, n, dict) ==
    IF n = 0 THEN POk(dict, p)
    ELSE Bind([keyprefix \in {read_exact(b, p, 1)} |->
        IF ~keyprefix.ok THEN keyprefix
        ELSE Bind([key \in {read_text(b, keyprefix.pos)} |->
            IF ~key.ok THEN key
            ELSE Bind([x \in {bin_parse_value(b, key.pos)} |->
                IF ~x.ok THEN x
                ELSE bin_parse_entries_any_prefix(b, x.pos, n - 1,
                                                  Insert(dict, key.val, x.val))])])])

\* the for loop over the map's count entries
bin_parse_entries(b, p, n, dict) ==
    IF n = 0 THEN POk(dict, p)
    ELSE Bind([keyprefix \in {read_exact(b, p, 1)} |->
        IF ~keyprefix.ok THEN keyprefix
        ELSE IF keyprefix.val[1] # Ch("k")
            THEN PErr("Binary LLSD map key had other than expected 'k'")
        ELSE Bind([key \in {read_text(b, keyprefix.pos)} |->
            IF ~key.ok THEN key
            ELSE Bind([x \in {bin_parse_value(b, key.pos)} |->
                IF ~x.ok THEN x
                ELSE bin_parse_entries(b, x.pos, n - 1, Insert(dict, key.val, x.val))])])])

\* the for loop over the array's count items
bin_parse_items(b, p, n, array) ==
    IF n = 0 THEN POk(array, p)
    ELSE Bind([x \in {bin_parse_value(b, p)} |->
        IF ~x.ok THEN x
        ELSE bin_parse_items(b, x.pos, n - 1, Append(array, x.val))])

\* from_bytes as it would be if it required the value to fill the input
binary_from_bytes_strict(b) ==
    Bind([x \in {bin_parse_value(b, 1)} |->
        IF x.ok /\ x.pos <= Len(b) THEN Err("trailing bytes") ELSE ToResult(x)])

\* de/binary.rs from_bytes
binary_from_bytes(b) == ToResult(bin_parse_value(b, 1))

(***************************************************************************)
(* Text conversions of the standard library and of the crates the codecs   *)
(* call: integer and float formatting and parsing, base64, hex,            *)
(* urlencoding, uuid and chrono's RFC 3339 dates.                          *)
(***************************************************************************)
IsDigit(c) == c >= 48 /\ c <= 57
IsUpper(c) == c >= 65 /\ c <= 90
IsLower(c) == c >= 97 /\ c <= 122
ToLower(c) == IF IsUpper(c) THEN c + 32 ELSE c
Lowercase(s) == [i \in 1..Len(s) |-> ToLower(s[i])]

\* char::is_alphabetic, for the Latin-1 range and the characters of the model
IsAlphabetic(c) ==
    \/ IsUpper(c)
    \/ IsLower(c)
    \/ c \in {170, 181, 186}
    \/ (c >= 192 /\ c <= 255 /\ c # 215 /\ c # 247)

\* char::is_whitespace (White_Space), for the Latin-1 range
IsWhitespace(c) == c \in {9, 10, 11, 12, 13, 32, 133, 160}

\* u8::is_ascii_whitespace: space, tab, line feed, form feed, carriage return
is_ascii_whitespace(c) == c \in {32, 9, 10, 12, 13}

RECURSIVE Retain(_, _)
\* String::retain(|c| !c.is_whitespace())
Retain(s, drop) ==
    IF s = <<>> THEN <<>>
    ELSE IF Head(s) \in drop THEN Retain(Tail(s), drop)
    ELSE <<Head(s)>> \o Retain(Tail(s), drop)

WhiteSpaceSet == {9, 10, 11, 12, 13, 32, 133, 160}

\* str::trim_start, str::trim_end, str::trim
RECURSIVE trim_end(_)
trim_end(s) ==
    IF s # <<>> /\ IsWhitespace(s[Len(s)]) THEN trim_end(SubSeq(s, 1, Len(s) - 1)) ELSE s
trim_start(s) == Tail2(s, SkipWhile(s, 1, WhiteSpaceSet))
trim(s) == trim_end(trim_start(s))

RECURSIVE DigitsOf(_)
\* the decimal digits of a natural number
DigitsOf(n) == IF n < 10 THEN <<48 + n>> ELSE DigitsOf(n \div 10) \o <<48 + (n % 10)>>

\* i32's Display
I32ToString(n) ==
    IF n >= 0 THEN DigitsOf(n)
    ELSE IF n = (-2147483647) - 1 THEN <<45>> \o DigitsOf(214748364) \o <<56>>
    ELSE <<45>> \o DigitsOf(-n)

RECURSIVE ParseDigitsI32_saturating(_, _, _, _)
\* an accumulation that stops at the largest or smallest i32 instead of failing
ParseDigitsI32_saturating(s, p, acc, neg) ==
    IF p > Len(s) THEN [ok |-> TRUE, val |-> acc]
    ELSE IF ~IsDigit(s[p]) THEN [ok |-> FALSE, val |-> 0]
    ELSE Bind([d \in {s[p] - 48} |->
        IF neg
        THEN IF acc > -214748364 \/ (acc = -214748364 /\ d <= 8)
                THEN ParseDigitsI32_saturating(s, p + 1, acc * 10 - d, neg)
                ELSE [ok |-> TRUE, val |-> (-2147483647) - 1]
        ELSE IF acc < 214748364 \/ (acc = 214748364 /\ d <= 7)
                THEN ParseDigitsI32_saturating(s, p + 1, acc * 10 + d, neg)
                ELSE [ok |-> TRUE, val |-> 2147483647]])

RECURSIVE ParseDigitsI32(_, _, _, _)
\* the checked accumulation of str::parse::<i32>: None on overflow
ParseDigitsI32(s, p, acc, neg) ==
    IF p > Len(s) THEN [ok |-> TRUE, val |-> acc]
    ELSE IF ~IsDigit(s[p]) THEN [ok |-> FALSE, val |-> 0]
    ELSE Bind([d \in {s[p] - 48} |->
        IF neg
        THEN IF acc > -214748364 \/ (acc = -214748364 /\ d <= 8)
                THEN ParseDigitsI32(s, p + 1, acc * 10 - d, neg)
                ELSE [ok |-> FALSE, val |-> 0]
        ELSE IF acc < 214748364 \/ (acc = 214748364 /\ d <= 7)
                THEN ParseDigitsI32(s, p + 1, acc * 10 + d, neg)
                ELSE [ok |-> FALSE, val |-> 0]])

\* str::parse::<i32>: an optional sign, then at least one digit, within 32 bits
ParseI32(s) ==
    IF s = <<>> THEN [ok |-> FALSE, val |-> 0]
    ELSE IF s[1] \in {43, 45}
        THEN IF Len(s) = 1 THEN [ok |-> FALSE, val |-> 0]
             ELSE ParseDigitsI32(s, 2, 0, s[1] = 45)
    ELSE ParseDigitsI32(s, 1, 0, FALSE)

RECURSIVE Pow2(_)
Pow2(n) == IF n = 0 THEN 1 ELSE 2 * Pow2(n - 1)
RECURSIVE Pow10(_)
Pow10(n) == IF n = 0 THEN 1 ELSE 10 * Pow10(n - 1)

RECURSIVE HighBit(_)
\* the h with 2^h <= n < 2^(h+1), for n >= 1
HighBit(n) == IF n < 2 THEN 0 ELSE 1 + HighBit(n \div 2)

\* The f64 values of the model are zero, the infinities, NaN and the normal
\* numbers whose mantissa has at most 12 bits set (bytes 4..8 zero): for
\* these the shortest decimal that Display prints is the exact expansion.
F64Sign(r) == r[1] >= 128
F64Exp(r) == (r[1] % 128) * 16 + (r[2] \div 16)
F64Man(r) == (r[2] % 16) * 256 + r[3]
F64Bits(neg, exp, man) ==
    <<(IF neg THEN 128 ELSE 0) + (exp \div 16), (exp % 16) * 16 + (man \div 256),
      man % 256, 0, 0, 0, 0, 0>>
F64Zero == F64Bits(FALSE, 0, 0)
F64NaN == <<127, 248, 0, 0, 0, 0, 0, 0>>

RECURSIVE FracDigits(_, _)
\* the decimal digits of num / den, which terminates for den a power of two
FracDigits(num, den) ==
    IF num = 0 THEN <<>>
    ELSE <<48 + ((num * 10) \div den)>> \o FracDigits((num * 10) % den, den)

\* f64's Display ("{}", to_string)
F64ToString(r) ==
    CASE IsNaN(r) -> Str(<<"N","a","N">>)
      [] ~IsNaN(r) /\ F64Exp(r) = 2047 ->
            (IF F64Sign(r) THEN <<45>> ELSE <<>>) \o Str(<<"i","n","f">>)
      [] F64Exp(r) = 0 /\ F64Man(r) = 0 /\ \A i \in 4..8 : r[i] = 0 ->
            (IF F64Sign(r) THEN <<45>> ELSE <<>>) \o <<48>>
      [] F64Exp(r) >= 1023 - 12 /\ F64Exp(r) <= 1023 + 17 /\ \A i \in 4..8 : r[i] = 0 ->
    Bind([n \in {4096 + F64Man(r)} |->
                Bind([e \in {F64Exp(r) - 1035} |->
                Bind([whole \in {IF e >= 0 THEN n * Pow2(e) ELSE n \div Pow2(-e)} |->
                Bind([frac \in {IF e >= 0 THEN <<>> ELSE FracDigits(n % Pow2(-e), Pow2(-e))} |->
               (IF F64Sign(r) THEN <<45>> ELSE <<>>) \o DigitsOf(whole)
                \o (IF frac = <<>> THEN <<>> ELSE <<46>> \o frac)])])])])

RECURSIVE DigitRun(_, _)
\* the end of the run of digits that starts at p
DigitRun(s, p) == IF p <= Len(s) /\ IsDigit(s[p]) THEN DigitRun(s, p + 1) ELSE p

RECURSIVE DigitsValue(_)
DigitsValue(s) == IF s = <<>> THEN 0 ELSE DigitsValue(SubSeq(s, 1, Len(s) - 1)) * 10 + (s[Len(s)] - 48)

RECURSIVE FracBits(_, _, _)
\* num / den as k binary digits: [bits, rest]; rest = 0 when exact
FracBits(num, den, k) ==
    IF k = 0 THEN [bits |-> 0, rest |-> num]
    ELSE Bind([b \in {IF 2 * num >= den THEN 1 ELSE 0} |->
    Bind([r \in {FracBits(2 * num - b * den, den, k - 1)} |->
            [bits |-> b * Pow2(k - 1) + r.bits, rest |-> r.rest]])])

\* the f64 nearest the decimal whole.frac, for the decimals that one of the
\* model's f64 values equals exactly
DecimalToF64(neg, whole, frac) ==
    Bind([fb \in {FracBits(DigitsValue(frac), Pow10(Len(frac)), 12)} |->
        Bind([n \in {whole * 4096 + fb.bits} |->
        IF n = 0 THEN F64Bits(neg, 0, 0)
        ELSE Bind([h \in {HighBit(n)} |->
    Bind([man \in {IF h >= 12 THEN (n - Pow2(h)) \div Pow2(h - 12)
                        ELSE (n - Pow2(h)) * Pow2(12 - h)} |->
                CASE fb.rest = 0 /\ (h >= 12 => (n - Pow2(h)) % Pow2(h - 12) = 0) ->
                    F64Bits(neg, h - 12 + 1023, man)])])])])

\* str::parse::<f64>: [ok, val].  A sign, then inf, infinity or nan in any
\* case, or digits with at most one point (an exponent is not in the model)
ParseF64(s) ==
    Bind([neg \in {s # <<>> /\ s[1] = 45} |->
        Bind([body \in {IF s # <<>> /\ s[1] \in {43, 45} THEN Tail(s) ELSE s} |->
        Bind([low \in {Lowercase(body)} |->
        Bind([q \in {DigitRun(body, 1)} |->
        Bind([whole \in {SubSeq(body, 1, q - 1)} |->
        Bind([hasPoint \in {q <= Len(body) /\ body[q] = 46} |->
        Bind([r \in {IF hasPoint THEN DigitRun(body, q + 1) ELSE q} |->
        Bind([frac \in {IF hasPoint THEN SubSeq(body, q + 1, r - 1) ELSE <<>>} |->
        IF low = Str(<<"n","a","n">>) THEN [ok |-> TRUE, val |-> F64NaN]
        ELSE IF low \in {Str(<<"i","n","f">>), Str(<<"i","n","f","i","n","i","t","y">>)}
            THEN [ok |-> TRUE, val |-> F64Bits(neg, 2047, 0)]
        ELSE IF whole = <<>> /\ frac = <<>> THEN [ok |-> FALSE, val |-> F64Zero]
        ELSE CASE r > Len(body) ->
                    [ok |-> TRUE, val |-> DecimalToF64(neg, DigitsValue(whole), frac)]
               [] r <= Len(body) /\ body[r] \notin {69, 101} ->
                    [ok |-> FALSE, val |-> F64Zero]])])])])])])])])

\* ---- base64 (the STANDARD engine: padded, canonical) ----
B64Alphabet ==
    Str(<<"A","B","C","D","E","F","G","H","I","J","K","L","M","N","O","P","Q","R","S",
          "T","U","V","W","X","Y","Z","a","b","c","d","e","f","g","h","i","j","k","l",
          "m","n","o","p","q","r","s","t","u","v","w","x","y","z","0","1","2","3","4",
          "5","6","7","8","9","+","/">>)

B64Char(n) == B64Alphabet[n + 1]
IsB64(c) == \E i \in 1..64 : B64Alphabet[i] = c
B64Val(c) == (CHOOSE i \in 1..64 : B64Alphabet[i] = c) - 1

RECURSIVE base64_encode(_)
base64_encode(b) ==
    IF b = <<>> THEN <<>>
    ELSE IF Len(b) = 1
        THEN <<B64Char(b[1] \div 4), B64Char((b[1] % 4) * 16), 61, 61>>
    ELSE IF Len(b) = 2
        THEN <<B64Char(b[1] \div 4), B64Char((b[1] % 4) * 16 + (b[2] \div 16)),
               B64Char((b[2] % 16) * 4), 61>>
    ELSE <<B64Char(b[1] \div 4), B64Char((b[1] % 4) * 16 + (b[2] \div 16)),
           B64Char((b[2] % 16) * 4 + (b[3] \div 64)), B64Char(b[3] % 64)>>
         \o base64_encode(Tail2(b, 4))

RECURSIVE base64_decode(_)
\* [ok, val]: groups of four symbols, padding only in the last group, no
\* stray bits under the padding
base64_decode(s) ==
    IF s = <<>> THEN [ok |-> TRUE, val |-> <<>>]
    ELSE IF Len(s) < 4 \/ ~IsB64(s[1]) \/ ~IsB64(s[2]) THEN [ok |-> FALSE, val |-> <<>>]
    ELSE Bind([a \in {B64Val(s[1])} |->
    Bind([b \in {B64Val(s[2])} |->
    Bind([b1 \in {a * 4 + (b \div 16)} |->
        IF s[3] = 61
        THEN IF Len(s) = 4 /\ s[4] = 61 /\ b % 16 = 0
                THEN [ok |-> TRUE, val |-> <<b1>>]
                ELSE [ok |-> FALSE, val |-> <<>>]
        ELSE IF ~IsB64(s[3]) THEN [ok |-> FALSE, val |-> <<>>]
        ELSE Bind([c \in {B64Val(s[3])} |->
    Bind([b2 \in {(b % 16) * 16 + (c \div 4)} |->
            IF s[4] = 61
            THEN IF Len(s) = 4 /\ c % 4 = 0
                    THEN [ok |-> TRUE, val |-> <<b1, b2>>]
                    ELSE [ok |-> FALSE, val |-> <<>>]
            ELSE IF ~IsB64(s[4]) THEN [ok |-> FALSE, val |-> <<>>]
            ELSE Bind([rest \in {base64_decode(Tail2(s, 5))} |->
                IF rest.ok
                THEN [ok |-> TRUE, val |-> <<b1, b2, (c % 4) * 64 + B64Val(s[4])>> \o rest.val]
                ELSE rest])])])])])])

\* ---- hex ----
HexDigits == Str(<<"0","1","2","3","4","5","6","7","8","9","a","b","c","d","e","f">>)
HexChar(n) == HexDigits[n + 1]
IsHex(c) == IsDigit(c) \/ (ToLower(c) >= 97 /\ ToLower(c) <= 102)
HexVal(c) == IF IsDigit(c) THEN c - 48 ELSE ToLower(c) - 87

RECURSIVE hex_encode(_)
hex_encode(b) ==
    IF b = <<>> THEN <<>>
    ELSE <<HexChar(Head(b) \div 16), HexChar(Head(b) % 16)>> \o hex_encode(Tail(b))

RECURSIVE hex_decode(_)
\* hex::decode: [ok, val]
hex_decode(s) ==
    IF s = <<>> THEN [ok |-> TRUE, val |-> <<>>]
    ELSE IF Len(s) < 2 \/ ~IsHex(s[1]) \/ ~IsHex(s[2]) THEN [ok |-> FALSE, val |-> <<>>]
    ELSE Bind([rest \in {hex_decode(Tail2(s, 3))} |->
        IF rest.ok THEN [ok |-> TRUE, val |-> <<HexVal(s[1]) * 16 + HexVal(s[2])>> \o rest.val]
        ELSE rest])

\* ---- urlencoding ----
IsUnreserved(c) == IsDigit(c) \/ IsUpper(c) \/ IsLower(c) \/ c \in {45, 95, 46, 126}
UpperHex(n) == IF n < 10 THEN 48 + n ELSE 55 + n

RECURSIVE PercentEncode(_)
PercentEncode(b) ==
    IF b = <<>> THEN <<>>
    ELSE (IF IsUnreserved(Head(b)) THEN <<Head(b)>>
          ELSE <<37, UpperHex(Head(b) \div 16), UpperHex(Head(b) % 16)>>)
         \o PercentEncode(Tail(b))

\* urlencoding::encode: every byte of the UTF-8 form but the unreserved ones
url_encode(s) == PercentEncode(as_bytes(s))

RECURSIVE PercentDecode(_)
\* a % that two hex digits do not follow is kept as it is
PercentDecode(b) ==
    IF b = <<>> THEN <<>>
    ELSE IF Head(b) = 37 /\ Len(b) >= 3 /\ IsHex(b[2]) /\ IsHex(b[3])
        THEN <<HexVal(b[2]) * 16 + HexVal(b[3])>> \o PercentDecode(Tail2(b, 4))
    ELSE <<Head(b)>> \o PercentDecode(Tail(b))

\* urlencoding::decode: [ok, val]; the decoded bytes must be UTF-8
url_decode(s) == from_utf8(PercentDecode(as_bytes(s)))

\* ---- uuid ----
\* Uuid's Display: lower-case hex, hyphenated 8-4-4-4-12
UuidToString(u) ==
    hex_encode(SubSeq(u, 1, 4)) \o <<45>> \o hex_encode(SubSeq(u, 5, 6)) \o <<45>>
        \o hex_encode(SubSeq(u, 7, 8)) \o <<45>> \o hex_encode(SubSeq(u, 9, 10)) \o <<45>>
        \o hex_encode(SubSeq(u, 11, 16))

NilUuid == [i \in 1..16 |-> 0]

\* Uuid::parse_str: [ok, val], for the hyphenated and the simple form (the
\* braced and the urn form are not in the model)
UuidParse(s) ==
    IF Len(s) = 36 /\ s[9] = 45 /\ s[14] = 45 /\ s[19] = 45 /\ s[24] = 45
        THEN hex_decode(SubSeq(s, 1, 8) \o SubSeq(s, 10, 13) \o SubSeq(s, 15, 18)
                            \o SubSeq(s, 20, 23) \o SubSeq(s, 25, 36))
    ELSE IF Len(s) = 32 THEN hex_decode(s)
    ELSE CASE Len(s) \notin {38, 45} -> [ok |-> FALSE, val |-> <<>>]

\* ---- chrono ----
TwoDigits(n) == <<48 + (n \div 10), 48 + (n % 10)>>
FourDigits(n) == TwoDigits(n \div 100) \o TwoDigits(n % 100)

\* the civil date of a day number counted from 1970-01-01
CivilFromDays(days) ==
    Bind([z \in {days + 719468} |->
        Bind([era \in {z \div 146097} |->
        Bind([doe \in {z - era * 146097} |->
        Bind([yoe \in {(doe - (doe \div 1460) + (doe \div 36524) - (doe \div 146096)) \div 365} |->
        Bind([doy \in {doe - (365 * yoe + (yoe \div 4) - (yoe \div 100))} |->
        Bind([mp \in {(5 * doy + 2) \div 153} |->
        Bind([d \in {doy - ((153 * mp + 2) \div 5) + 1} |->
        Bind([m \in {IF mp < 10 THEN mp + 3 ELSE mp - 9} |->
        Bind([y \in {yoe + era * 400 + (IF m <= 2 THEN 1 ELSE 0)} |->
       [y |-> y, m |-> m, d |-> d]])])])])])])])])])

DaysFromCivil(y0, m, d) ==
    Bind([y \in {IF m <= 2 THEN y0 - 1 ELSE y0} |->
        Bind([era \in {y \div 400} |->
        Bind([yoe \in {y - era * 400} |->
        Bind([mp \in {IF m > 2 THEN m - 3 ELSE m + 9} |->
        Bind([doy \in {((153 * mp + 2) \div 5) + d - 1} |->
        Bind([doe \in {yoe * 365 + (yoe \div 4) - (yoe \div 100) + doy} |->
       era * 146097 + doe - 719468])])])])])])

\* Utc.timestamp(t, 0).to_rfc3339_opts(SecondsFormat::Secs, true), for the
\* years 0..9999
to_rfc3339(t) ==
    Bind([c \in {CivilFromDays(t \div 86400)} |->
        Bind([sod \in {t % 86400} |->
       CASE c.y >= 0 /\ c.y <= 9999 ->
        FourDigits(c.y) \o <<45>> \o TwoDigits(c.m) \o <<45>> \o TwoDigits(c.d) \o <<84>>
            \o TwoDigits(sod \div 3600) \o <<58>> \o TwoDigits((sod \div 60) % 60) \o <<58>>
            \o TwoDigits(sod % 60) \o <<90>>])])

AllDigits(s) == \A i \in 1..Len(s) : IsDigit(s[i])

DaysInMonth(y, m) ==
    IF m = 2 THEN (IF y % 4 = 0 /\ (y % 100 # 0 \/ y % 400 = 0) THEN 29 ELSE 28)
    ELSE IF m \in {4, 6, 9, 11} THEN 30 ELSE 31

\* DateTime::parse_from_rfc3339(s).timestamp(): [ok, val], for whole seconds
\* (a fraction of a second is not in the model) and the years 1902..2037
parse_from_rfc3339(s) ==
    IF Len(s) < 20 THEN [ok |-> FALSE, val |-> 0]
    ELSE Bind([ys \in {SubSeq(s, 1, 4)} |->
    Bind([ms \in {SubSeq(s, 6, 7)} |->
    Bind([ds \in {SubSeq(s, 9, 10)} |->
    Bind([hs \in {SubSeq(s, 12, 13)} |->
    Bind([mins \in {SubSeq(s, 15, 16)} |->
    Bind([ss \in {SubSeq(s, 18, 19)} |->
    Bind([zone \in {Tail2(s, 20)} |->
        IF ~(AllDigits(ys) /\ AllDigits(ms) /\ AllDigits(ds) /\ AllDigits(hs)
                /\ AllDigits(mins) /\ AllDigits(ss)
                /\ s[5] = 45 /\ s[8] = 45 /\ s[11] \in {84, 116, 32}
                /\ s[14] = 58 /\ s[17] = 58)
            THEN [ok |-> FALSE, val |-> 0]
        ELSE Bind([y \in {DigitsValue(ys)} |->
    Bind([m \in {DigitsValue(ms)} |->
    Bind([d \in {DigitsValue(ds)} |->
    Bind([hh \in {DigitsValue(hs)} |->
    Bind([mm \in {DigitsValue(mins)} |->
    Bind([sec \in {DigitsValue(ss)} |->
    Bind([local \in {DaysFromCivil(y, m, d) * 86400 + hh * 3600 + mm * 60 + sec} |->
            IF m < 1 \/ m > 12 \/ d < 1 \/ d > DaysInMonth(y, m) \/ hh > 23 \/ mm > 59
                    \/ sec > 59
                THEN [ok |-> FALSE, val |-> 0]
            ELSE CASE y >= 1902 /\ y <= 2037 /\ zone[1] # 46 ->
                IF zone \in {<<90>>, <<122>>} THEN [ok |-> TRUE, val |-> local]
                ELSE IF Len(zone) = 6 /\ zone[1] \in {43, 45} /\ zone[4] = 58
                        /\ AllDigits(SubSeq(zone, 2, 3)) /\ AllDigits(SubSeq(zone, 5, 6))
                        /\ DigitsValue(SubSeq(zone, 2, 3)) < 24
                        /\ DigitsValue(SubSeq(zone, 5, 6)) < 60
                    THEN Bind([off \in {DigitsValue(SubSeq(zone, 2, 3)) * 3600
                                        + DigitsValue(SubSeq(zone, 5, 6)) * 60} |->
                            [ok |-> TRUE,
                             val |-> IF zone[1] = 43 THEN local - off ELSE local + off]])
                ELSE [ok |-> FALSE, val |-> 0]])])])])])])])])])])])])])])

(***************************************************************************)
(* Notation codec: ser/notation.rs and de/notation.rs                      *)
(***************************************************************************)
LLSDNOTATIONPREFIX ==
    Str(<<"<","?"," ","l","l","s","d","/","n","o","t","a","t","i","o","n"," ","?",">","\n">>)
LLSDNOTATIONSENTINEL == LLSDNOTATIONPREFIX

RECURSIVE escape_quotes(_)
\* ser/notation.rs escape_quotes: a backslash before a double quote or backslash
escape_quotes(s) ==
    IF s = <<>> THEN <<>>
    ELSE (IF Head(s) \in {34, 92} THEN <<92, Head(s)>> ELSE <<Head(s)>>)
         \o escape_quotes(Tail(s))

escape_url(s) == url_encode(s)

\* ser/notation.rs generate_value
RECURSIVE nt_generate_value(_, _), nt_generate_entries(_, _, _, _), nt_generate_items(_, _, _)
nt_generate_value(val, ord) ==
    CASE val.t = "Undefined" -> <<Ch("!")>>
      [] val.t = "Boolean" -> IF val.v THEN <<Ch("T")>> ELSE <<Ch("F")>>
      [] val.t = "String" -> <<34>> \o escape_quotes(val.v) \o <<34>>
      [] val.t = "URI" -> <<Ch("l"), 34>> \o escape_url(val.v) \o <<34>>
      [] val.t = "Integer" -> <<Ch("i")>> \o I32ToString(val.v)
      [] val.t = "Real" -> <<Ch("r")>> \o F64ToString(val.v)
      [] val.t = "UUID" -> <<Ch("u")>> \o UuidToString(val.v)
      [] val.t = "Binary" -> <<Ch("b"), Ch("6"), Ch("4"), 34>> \o base64_encode(val.v) \o <<34>>
      [] val.t = "Date" -> <<Ch("d")>> \o to_rfc3339(val.v)
      [] val.t = "Map" ->
            <<Ch("{")>> \o nt_generate_entries(val.v, IterKeys(val.v, ord), ord, TRUE)
                \o <<Ch("}")>>
      [] val.t = "Array" ->
            <<Ch("[")>> \o nt_generate_items(val.v, ord, TRUE) \o <<Ch("]")>>

nt_generate_entries(m, keys, ord, first) ==
    IF keys = <<>> THEN <<>>
    ELSE (IF first THEN <<>> ELSE <<Ch(","), 10>>)
         \o <<39>> \o Head(keys) \o <<39, Ch(":")>>
         \o nt_generate_value(m[Head(keys)], ord)
         \o nt_generate_entries(m, Tail(keys), ord, FALSE)

nt_generate_items(items, ord, first) ==
    IF items = <<>> THEN <<>>
    ELSE (IF first THEN <<>> ELSE <<Ch(","), 10>>)
         \o nt_generate_value(Head(items), ord)
         \o nt_generate_items(Tail(items), ord, FALSE)

\* ser/notation.rs to_string
notation_to_string(val, ord) == LLSDNOTATIONPREFIX \o nt_generate_value(val, ord)

\* ---- the decoder: the stream is s, the cursor p is the next element.  In
\* chars mode s holds code points; in bytes mode it holds bytes, and
\* into_char turns each byte into the character of the same number.
EofErr == "Unexpected end of input parsing Notation"
PanicErr == "panic: capacity overflow"

into_char(mode, c) == c

\* consume_whitespace: space and newline only
consume_whitespace(s, p) == SkipWhile(s, p, {32, 10})

\* consume_char: skip whitespace, then the next element must be expected
consume_char(s, p, expected) ==
    Bind([q \in {consume_whitespace(s, p)} |->
    IF q > Len(s) THEN PErr(EofErr)
    ELSE IF s[q] = expected THEN POk(<<>>, q + 1)
    ELSE PErr("Expected other character")])

\* parse_integer: the run of digits and signs, then str::parse::<i32>
nt_parse_integer(s, p) ==
    Bind([q \in {SkipWhile(s, p, (48..57) \cup {43, 45})} |->
        Bind([n \in {ParseI32(SubSeq(s, p, q - 1))} |->
       IF n.ok THEN POk(Integer(n.val), q) ELSE PErr("ParseIntError")])])

\* parse_real: the run of digits, signs and points, then str::parse::<f64>
nt_parse_real(s, p) ==
    Bind([q \in {SkipWhile(s, p, (48..57) \cup {43, 45, 46})} |->
        Bind([x \in {ParseF64(SubSeq(s, p, q - 1))} |->
       IF x.ok THEN POk(Real(x.val), q) ELSE PErr("ParseFloatError")])])

RECURSIVE AlphaRun(_, _)
AlphaRun(s, p) == IF p <= Len(s) /\ IsAlphabetic(s[p]) THEN AlphaRun(s, p + 1) ELSE p

\* parse_boolean: first_char was read at p - 1
nt_parse_boolean(s, p) ==
    Bind([q \in {AlphaRun(s, p)} |->
        Bind([word \in {SubSeq(s, p - 1, q - 1)} |->
        IF word \in {Str(<<"f">>), Str(<<"F">>), Str(<<"f","a","l","s","e">>),
                     Str(<<"F","A","L","S","E">>)}
            THEN POk(Boolean(FALSE), q)
        ELSE IF word \in {Str(<<"t">>), Str(<<"T">>), Str(<<"t","r","u","e">>),
                          Str(<<"T","R","U","E">>)}
            THEN POk(Boolean(TRUE), q)
        ELSE PErr("Parsing Boolean, got other word")])])

RECURSIVE QuotedLoop(_, _, _, _)
\* the loop of parse_quoted_string
QuotedLoop(s, p, delim, acc) ==
    IF p > Len(s) THEN PErr("String ended with EOF instead of quote.")
    ELSE IF s[p] = delim THEN POk(acc, p + 1)
    ELSE IF s[p] = 92
        THEN IF p + 1 > Len(s) THEN PErr("String ended with EOF instead of quote.")
             ELSE QuotedLoop(s, p + 2, delim, Append(acc, s[p + 1]))
    ELSE QuotedLoop(s, p + 1, delim, Append(acc, s[p]))

\* parse_quoted_string: the opening quote has been read
parse_quoted_string(s, p, delim) == QuotedLoop(s, consume_whitespace(s, p), delim, <<>>)

\* parse_date
nt_parse_date(s, p) ==
    IF p > Len(s) THEN PErr("URI at end of file.")
    ELSE IF s[p] \notin {34, 39} THEN PErr("URI did not begin with quote")
    ELSE Bind([q \in {parse_quoted_string(s, p + 1, s[p])} |->
        IF ~q.ok THEN q
        ELSE Bind([d \in {parse_from_rfc3339(q.val)} |->
            IF d.ok THEN POk(Date(d.val), q.pos) ELSE PErr("chrono ParseError")])])

\* parse_uri
nt_parse_uri(s, p) ==
    IF p > Len(s) THEN PErr("URI at end of file.")
    ELSE IF s[p] \notin {34, 39} THEN PErr("URI did not begin with quote")
    ELSE Bind([q \in {parse_quoted_string(s, p + 1, s[p])} |->
        IF ~q.ok THEN q
        ELSE Bind([u \in {url_decode(q.val)} |->
            IF u.ok THEN POk(URI(u.val), q.pos) ELSE PErr("FromUtf8Error")])])

UUID_LEN == Len(Str(<<"c","6","9","b","2","9","b","1","-","8","9","4","4","-","5","8","a","e",
                      "-","a","7","c","5","-","2","c","a","7","b","2","3","e","2","2","f","b">>))

\* parse_uuid: exactly UUID_LEN characters, no quotes
nt_parse_uuid(s, p) ==
    IF p + UUID_LEN - 1 > Len(s) THEN PErr("EOF parsing UUID")
    ELSE Bind([u \in {UuidParse(SubSeq(s, p, p + UUID_LEN - 1))} |->
        IF u.ok THEN POk(UUID(u.val), p + UUID_LEN) ELSE PErr("uuid Error")])

\* LLSDStreamBytes::parse_number_in_parentheses; val is the i32 before "as usize"
parse_number_in_parentheses(s, p) ==
    Bind([open \in {consume_char(s, p, Ch("("))} |->
    IF ~open.ok THEN open
    ELSE Bind([n \in {nt_parse_integer(s, open.pos)} |->
        IF ~n.ok THEN n
        ELSE Bind([close \in {consume_char(s, n.pos, Ch(")"))} |->
            IF ~close.ok THEN close ELSE POk(n.val.v, close.pos)])])])

\* LLSDStreamBytes::next_chunk: cnt is "v as usize", so a negative v is a
\* capacity no Vec can have, and Vec::with_capacity panics
next_chunk(s, p, cnt) ==
    IF cnt < 0 THEN PErr(PanicErr)
    ELSE IF cnt > Len(s) \/ p + cnt - 1 > Len(s) THEN PErr(EofErr)
    ELSE POk(SubSeq(s, p, p + cnt - 1), p + cnt)

\* "(N)", a quote, N raw bytes, a quote
sized_chunk(s, p) ==
    Bind([cnt \in {parse_number_in_parentheses(s, p)} |->
    IF ~cnt.ok THEN cnt
    ELSE Bind([q1 \in {consume_char(s, cnt.pos, 34)} |->
        IF ~q1.ok THEN q1
        ELSE Bind([chunk \in {next_chunk(s, q1.pos, cnt.val)} |->
            IF ~chunk.ok THEN chunk
            ELSE Bind([q2 \in {consume_char(s, chunk.pos, 34)} |->
                IF ~q2.ok THEN q2 ELSE POk(chunk.val, q2.pos)])])])])

RECURSIVE consume_chars(_, _, _)
\* consume_char for each character of cs in turn
consume_chars(s, p, cs) ==
    IF cs = <<>> THEN POk(<<>>, p)
    ELSE Bind([r \in {consume_char(s, p, Head(cs))} |->
        IF ~r.ok THEN r ELSE consume_chars(s, r.pos, Tail(cs))])

\* LLSDStreamChars::parse_binary
chars_parse_binary(s, p) == PErr("Byte-counted binary data inside UTF-8 won't work.")

\* LLSDStreamBytes::parse_binary
bytes_parse_binary(s, p) ==
    IF p > Len(s) THEN PErr("Binary value started with EOF")
    ELSE IF s[p] = Ch("(")
        THEN Bind([c \in {sized_chunk(s, p)} |->
             IF c.ok THEN POk(Binary(c.val), c.pos) ELSE c])
    ELSE IF s[p] \in {Ch("1"), Ch("6")}
        THEN Bind([open \in {consume_chars(s, p,
                            IF s[p] = Ch("1") THEN <<Ch("1"), Ch("6"), 34>>
                            ELSE <<Ch("6"), Ch("4"), 34>>)} |->
             IF ~open.ok THEN open
             ELSE Bind([q \in {parse_quoted_string(s, open.pos, 34)} |->
                IF ~q.ok THEN q
                ELSE Bind([text \in {Retain(q.val, WhiteSpaceSet)} |->
    Bind([b \in {IF s[p] = Ch("1") THEN hex_decode(text) ELSE base64_decode(text)} |->
                        IF b.ok THEN POk(Binary(b.val), q.pos) ELSE PErr("decode error")])])])])
    ELSE PErr("Binary value started with other than (, 1, or 6")

nt_parse_binary(mode, s, p) ==
    IF mode = "chars" THEN chars_parse_binary(s, p) ELSE bytes_parse_binary(s, p)

\* parse_sized_string as the byte mode has it, run on the characters
chars_parse_sized_string_counted(s, p) ==
    Bind([c \in {sized_chunk(s, p)} |->
    IF ~c.ok THEN c ELSE POk(String(c.val), c.pos)])

\* LLSDStreamChars::parse_sized_string
chars_parse_sized_string(s, p) == PErr("Byte-counted string data inside UTF-8 won't work.")

\* LLSDStreamBytes::parse_sized_string
bytes_parse_sized_string(s, p) ==
    Bind([c \in {sized_chunk(s, p)} |->
    IF ~c.ok THEN c
    ELSE Bind([u \in {from_utf8(c.val)} |->
        IF u.ok THEN POk(String(u.val), c.pos) ELSE PErr("FromUtf8Error")])])

nt_parse_sized_string(mode, s, p) ==
    IF mode = "chars" THEN chars_parse_sized_string(s, p) ELSE bytes_parse_sized_string(s, p)

\* how many elements parse_map reads when it meets the closing brace
MapCloseTakes(s, p) == IF p + 1 <= Len(s) THEN 2 ELSE 1

RECURSIVE nt_parse_value(_, _, _), nt_parse_map(_, _, _, _), nt_parse_array(_, _, _, _)
\* LLSDStream::parse_value
nt_parse_value(mode, s, p0) ==
    Bind([p \in {consume_whitespace(s, p0)} |->
    IF p > Len(s) THEN PErr(EofErr)
    ELSE Bind([ch \in {into_char(mode, s[p])} |->
    Bind([q \in {p + 1} |->
        CASE ch = Ch("!") -> POk(Undefined, q)
          [] ch = Ch("0") -> POk(Boolean(FALSE), q)
          [] ch = Ch("1") -> POk(Boolean(TRUE), q)
          [] ch \in {Ch("f"), Ch("F"), Ch("t"), Ch("T")} -> nt_parse_boolean(s, q)
          [] ch = Ch("{") -> nt_parse_map(mode, s, q, EmptyMap)
          [] ch = Ch("[") -> nt_parse_array(mode, s, q, <<>>)
          [] ch = Ch("i") -> nt_parse_integer(s, q)
          [] ch = Ch("r") -> nt_parse_real(s, q)
          [] ch = Ch("d") -> nt_parse_date(s, q)
          [] ch = Ch("u") -> nt_parse_uuid(s, q)
          [] ch = Ch("l") -> nt_parse_uri(s, q)
          [] ch = Ch("b") -> nt_parse_binary(mode, s, q)
          [] ch = Ch("s") -> nt_parse_sized_string(mode, s, q)
          [] ch \in {34, 39} ->
    Bind([r \in {parse_quoted_string(s, q, ch)} |->
                IF r.ok THEN POk(String(r.val), r.pos) ELSE r])
          [] OTHER -> PErr("Unexpected character")])])])

\* LLSDStream::parse_map: one turn of its loop, kvmap built so far
nt_parse_map(mode, s, p0, kvmap) ==
    Bind([p \in {consume_whitespace(s, p0)} |->
    IF p > Len(s) THEN PErr(EofErr)
    ELSE IF s[p] = Ch("}") THEN POk(Map(kvmap), p + MapCloseTakes(s, p))
    ELSE IF s[p] \notin {34, 39} THEN PErr("Map key began with other than quote.")
    ELSE Bind([key \in {parse_quoted_string(s, p + 1, s[p])} |->
        IF ~key.ok THEN key
        ELSE Bind([colon \in {consume_char(s, key.pos, Ch(":"))} |->
            IF ~colon.ok THEN colon
            ELSE Bind([x \in {nt_parse_value(mode, s, colon.pos)} |->
                IF ~x.ok THEN x
                ELSE Bind([q \in {consume_whitespace(s, x.pos)} |->
                    IF q > Len(s) THEN PErr(EofErr)
                    ELSE nt_parse_map(mode, s, IF s[q] = Ch(",") THEN q + 1 ELSE q,
                                      Insert(kvmap, key.val, x.val))])])])])])

\* LLSDStream::parse_array: one turn of its loop
nt_parse_array(mode, s, p0, items) ==
    Bind([p \in {consume_whitespace(s, p0)} |->
    IF p > Len(s) THEN PErr(EofErr)
    ELSE IF s[p] = Ch("]") THEN POk(Array(items), p + 1)
    ELSE Bind([x \in {nt_parse_value(mode, s, p)} |->
        IF ~x.ok THEN x
        ELSE Bind([q \in {consume_whitespace(s, x.pos)} |->
            IF q > Len(s) THEN PErr(EofErr)
            ELSE nt_parse_array(mode, s, IF s[q] = Ch(",") THEN q + 1 ELSE q,
                                Append(items, x.val))])])])

\* LLSDStreamChars::parse and LLSDStreamBytes::parse
LLSDStreamChars_parse(notation_str) == ToResult(nt_parse_value("chars", notation_str, 1))
LLSDStreamBytes_parse(notation_bytes) == ToResult(nt_parse_value("bytes", notation_bytes, 1))

\* de/notation.rs from_str and from_bytes, which de/mod.rs and lib.rs name
notation_from_str(notation_str) == LLSDStreamChars_parse(notation_str)
notation_from_bytes(notation_bytes) == LLSDStreamBytes_parse(notation_bytes)

(***************************************************************************)
(* The XML reader the decoder is built on (quick_xml::Reader with          *)
(* trim_text(true) and expand_empty_elements(true)), by what it does to    *)
(* the bytes: it yields Start, End, Text, Comment, Decl, PI, Eof events or *)
(* an error.  CDATA and DOCTYPE sections are outside the model.            *)
(***************************************************************************)
XmlWs == {32, 13, 10, 9}

\* the first position at or after p that holds c, or 0
FindByte(b, p, c) == FirstIn(b, p, {c})

RECURSIVE FindTagEnd(_, _, _)
\* the '>' that ends a start tag: one inside a quoted attribute value does not
FindTagEnd(b, p, quote) ==
    IF p > Len(b) THEN 0
    ELSE IF quote = 0
        THEN IF b[p] = 62 THEN p
             ELSE FindTagEnd(b, p + 1, IF b[p] \in {34, 39} THEN b[p] ELSE 0)
    ELSE FindTagEnd(b, p + 1, IF b[p] = quote THEN 0 ELSE quote)

RECURSIVE FindCommentEnd(_, _)
\* the '>' of the first "-->" at or after p, or 0
FindCommentEnd(b, p) ==
    IF p + 2 > Len(b) THEN 0
    ELSE IF b[p] = 45 /\ b[p + 1] = 45 /\ b[p + 2] = 62 THEN p + 2
    ELSE FindCommentEnd(b, p + 1)

XmlEvent(k, name, attrs, text) == [k |-> k, name |-> name, attrs |-> attrs, text |-> text]
XmlReader(pos, tag_state, opened) == [pos |-> pos, tag_state |-> tag_state, opened |-> opened]
Read(ev, rd) == [ev |-> ev, rd |-> rd]
EofEvent == XmlEvent("Eof", <<>>, <<>>, <<>>)
ErrEvent == XmlEvent("Err", <<>>, <<>>, <<>>)

\* the name of a tag: its bytes up to the first whitespace
NameEnd(bytes) ==
    Bind([q \in {SkipWhile(bytes, 1, (0..255) \ XmlWs)} |->    q - 1])

RECURSIVE TrimWsEnd(_)
TrimWsEnd(bytes) ==
    IF bytes # <<>> /\ bytes[Len(bytes)] \in XmlWs
        THEN TrimWsEnd(SubSeq(bytes, 1, Len(bytes) - 1))
    ELSE bytes

\* Reader::read_until_close: the cursor is just after a '<'
read_until_close(b, rd) ==
    Bind([p \in {rd.pos} |->
    IF p > Len(b) THEN Read(EofEvent, XmlReader(p, "Closed", rd.opened))
    ELSE IF b[p] = 33 THEN
        CASE p + 2 <= Len(b) /\ b[p + 1] = 45 /\ b[p + 2] = 45 ->
    Bind([q \in {FindCommentEnd(b, p + 3)} |->
                IF q = 0 THEN Read(ErrEvent, rd)
                ELSE Read(XmlEvent("Comment", <<>>, <<>>, SubSeq(b, p + 3, q - 3)),
                          XmlReader(q + 1, "Closed", rd.opened))])
          [] p + 1 > Len(b) -> Read(ErrEvent, rd)
    ELSE IF b[p] = 47 THEN
    Bind([q \in {FindByte(b, p, 62)} |->
            Bind([name \in {TrimWsEnd(SubSeq(b, p + 1, q - 1))} |->
            Bind([n \in {Len(rd.opened)} |->
            IF q = 0 THEN Read(ErrEvent, rd)
            ELSE IF n = 0 \/ rd.opened[n] # name THEN Read(ErrEvent, rd)
            ELSE Read(XmlEvent("End", name, <<>>, <<>>),
                      XmlReader(q + 1, "Closed", SubSeq(rd.opened, 1, n - 1)))])])])
    ELSE IF b[p] = 63 THEN
    Bind([q \in {FindByte(b, p, 62)} |->
            Bind([bytes \in {SubSeq(b, p, q - 1)} |->
            IF q = 0 THEN Read(ErrEvent, rd)
            ELSE IF Len(bytes) > 2 /\ bytes[Len(bytes)] = 63
                THEN Read(XmlEvent(IF StartsWith(bytes, Str(<<"?","x","m","l">>))
                                       /\ (Len(bytes) > 5 => bytes[5] \in XmlWs)
                                   THEN "Decl" ELSE "PI", <<>>, <<>>, bytes),
                          XmlReader(q + 1, "Closed", rd.opened))
            ELSE Read(ErrEvent, rd)])])
    ELSE
    Bind([q \in {FindTagEnd(b, p, 0)} |->
            Bind([bytes \in {SubSeq(b, p, q - 1)} |->
            Bind([empty \in {bytes # <<>> /\ bytes[Len(bytes)] = 47} |->
            Bind([content \in {IF empty THEN SubSeq(bytes, 1, Len(bytes) - 1) ELSE bytes} |->
            Bind([name \in {SubSeq(content, 1, NameEnd(content))} |->
            IF q = 0 THEN Read(ErrEvent, rd)
            ELSE Read(XmlEvent("Start", name, Tail2(content, Len(name) + 1), <<>>),
                      XmlReader(q + 1, IF empty THEN "Empty" ELSE "Closed",
                                Append(rd.opened, name)))])])])])])])

\* Reader::read_until_open: skip whitespace, then a tag or a Text that runs
\* to the next '<' and is trimmed at its end
read_until_open(b, rd) ==
    Bind([p \in {SkipWhile(b, rd.pos, XmlWs)} |->
    IF p > Len(b) THEN Read(EofEvent, XmlReader(p, "Opened", rd.opened))
    ELSE IF b[p] = 60 THEN read_until_close(b, XmlReader(p + 1, "Opened", rd.opened))
    ELSE Bind([q \in {FindByte(b, p, 60)} |->
    Bind([stop \in {IF q = 0 THEN Len(b) + 1 ELSE q} |->
            Read(XmlEvent("Text", <<>>, <<>>, TrimWsEnd(SubSeq(b, p, stop - 1))),
                 XmlReader(IF q = 0 THEN stop ELSE q + 1, "Opened", rd.opened))])])])

\* Reader::close_expanded_empty: the End event of an element written <a/>
close_expanded_empty(b, rd) ==
    Bind([n \in {Len(rd.opened)} |->
    Read(XmlEvent("End", rd.opened[n], <<>>, <<>>),
         XmlReader(rd.pos, "Closed", SubSeq(rd.opened, 1, n - 1)))])

\* Reader::read_event
read_event(b, rd) ==
    CASE rd.tag_state = "Opened" -> read_until_close(b, rd)
      [] rd.tag_state = "Closed" -> read_until_open(b, rd)
      [] rd.tag_state = "Empty" -> close_expanded_empty(b, rd)

\* the five predefined entities and numeric character references
EntityValue(name) ==
    IF name = Str(<<"l","t">>) THEN [ok |-> TRUE, val |-> <<60>>]
    ELSE IF name = Str(<<"g","t">>) THEN [ok |-> TRUE, val |-> <<62>>]
    ELSE IF name = Str(<<"a","m","p">>) THEN [ok |-> TRUE, val |-> <<38>>]
    ELSE IF name = Str(<<"a","p","o","s">>) THEN [ok |-> TRUE, val |-> <<39>>]
    ELSE IF name = Str(<<"q","u","o","t">>) THEN [ok |-> TRUE, val |-> <<34>>]
    ELSE IF Len(name) >= 2 /\ Len(name) <= 4 /\ name[1] = 35 /\ AllDigits(Tail(name))
        THEN [ok |-> TRUE, val |-> Utf8Char(DigitsValue(Tail(name)))]
    ELSE [ok |-> FALSE, val |-> <<>>]

RECURSIVE unescape(_, _, _)
\* quick_xml::escape::unescape on the raw bytes of a Text or attribute value
unescape(raw, p, acc) ==
    IF p > Len(raw) THEN [ok |-> TRUE, val |-> acc]
    ELSE IF raw[p] # 38 THEN unescape(raw, p + 1, Append(acc, raw[p]))
    ELSE Bind([q \in {FindByte(raw, p, 59)} |->
    Bind([e \in {EntityValue(SubSeq(raw, p + 1, q - 1))} |->
            IF q = 0 \/ ~e.ok THEN [ok |-> FALSE, val |-> <<>>]
            ELSE unescape(raw, q + 1, acc \o e.val)])])

\* BytesText::unescape_and_decode: unescape, then UTF-8 to text
unescape_and_decode(raw) ==
    Bind([u \in {unescape(raw, 1, <<>>)} |->
    IF ~u.ok THEN [ok |-> FALSE, val |-> <<>>] ELSE from_utf8(u.val)])

RECURSIVE AttrList(_, _, _)
\* Attributes: the key="value" pairs of a start tag, in order; [ok, val]
AttrList(a, p0, acc) ==
    Bind([p \in {SkipWhile(a, p0, XmlWs)} |->
    IF p > Len(a) THEN [ok |-> TRUE, val |-> acc]
    ELSE Bind([k \in {SkipWhile(a, p, (0..255) \ (XmlWs \cup {61}))} |->
    Bind([e \in {SkipWhile(a, k, XmlWs)} |->
    Bind([o \in {IF e <= Len(a) /\ a[e] = 61 THEN SkipWhile(a, e + 1, XmlWs) ELSE 0} |->
    Bind([c \in {IF o > 0 /\ o <= Len(a) /\ a[o] \in {34, 39}
                    THEN FindByte(a, o + 1, a[o]) ELSE 0} |->
            IF c = 0 THEN [ok |-> FALSE, val |-> acc]
            ELSE AttrList(a, c + 1,
                    Append(acc, [key |-> SubSeq(a, p, k - 1),
                                 value |-> SubSeq(a, o + 1, c - 1)]))])])])])])

(***************************************************************************)
(* XML codec: de/xml.rs and ser/xml.rs                                     *)
(***************************************************************************)
LLSDXMLPREFIX ==
    Str(<<"<","?","x","m","l"," ","v","e","r","s","i","o","n","=","\"","1",".","0","\""," ","e","n","c","o","d","i","n","g","=","\"","U","T","F","-","8","\"","?",">","\n","<","l","l","s","d",">","\n">>)
LLSDXMLSENTINEL == Str(<<"<","?","x","m","l">>)
INDENT == 4

\* a parser's progress over the reader: Ok(val) with the reader after it, or Err
XOk(x, rd) == [ok |-> TRUE, val |-> x, rd |-> rd, err |-> ""]
XErr(e) == [ok |-> FALSE, val |-> NoValue, rd |-> XmlReader(0, "Closed", <<>>), err |-> e]

RECURSIVE Join(_)
\* Vec<String>::join(" ")
Join(texts) ==
    IF texts = <<>> THEN <<>>
    ELSE IF Len(texts) = 1 THEN texts[1]
    ELSE texts[1] \o <<32>> \o Join(Tail(texts))

RECURSIVE FindAttr(_, _)
FindAttr(list, key) ==
    IF list = <<>> THEN [found |-> FALSE, value |-> <<>>]
    ELSE IF Head(list).key = key THEN [found |-> TRUE, value |-> Head(list).value]
    ELSE FindAttr(Tail(list), key)

\* get_attr: [ok, found, val]
get_attr(attrs, key) ==
    Bind([list \in {AttrList(attrs, 1, <<>>)} |->
        Bind([a \in {FindAttr(list.val, key)} |->
        Bind([v \in {unescape_and_decode(a.value)} |->
        IF ~a.found THEN [ok |-> list.ok, found |-> FALSE, val |-> <<>>]
        ELSE [ok |-> v.ok, found |-> TRUE, val |-> v.val]])])])

\* de/xml.rs parse_binary: base85 is outside the model
xml_parse_binary(text, attrs) ==
    Bind([enc \in {get_attr(attrs, Str(<<"e","n","c","o","d","i","n","g">>))} |->
        Bind([encoding \in {IF enc.found THEN enc.val ELSE Str(<<"b","a","s","e","6","4">>)} |->
        IF ~enc.ok THEN [ok |-> FALSE, val |-> <<>>]
        ELSE IF encoding = Str(<<"b","a","s","e","6","4">>) THEN base64_decode(text)
        ELSE IF encoding = Str(<<"b","a","s","e","1","6">>) THEN hex_decode(text)
        ELSE CASE encoding # Str(<<"b","a","s","e","8","5">>) -> [ok |-> FALSE, val |-> <<>>]])])

\* de/xml.rs parse_date
xml_parse_date(text) == parse_from_rfc3339(text)

\* de/xml.rs parse_boolean
xml_parse_boolean(text) ==
    IF text \in {Str(<<"0">>), Str(<<"0",".","0">>), Str(<<"f","a","l","s","e">>)}
        THEN [ok |-> TRUE, val |-> FALSE]
    ELSE IF text \in {Str(<<"1">>), Str(<<"1",".","0">>), Str(<<"t","r","u","e">>)}
        THEN [ok |-> TRUE, val |-> TRUE]
    ELSE [ok |-> FALSE, val |-> FALSE]

\* the uuid arm with every text handed to Uuid::parse_str, the empty one too
uuid_arm_parse_always(text) ==
    Bind([u \in {UuidParse(text)} |->
        IF u.ok THEN Ok(UUID(u.val)) ELSE Err("uuid Error")])

\* the "uuid" arm of that match: the nil UUID for an empty text
uuid_arm(text) ==
    IF text = <<>> THEN Ok(UUID(NilUuid))
    ELSE Bind([u \in {UuidParse(text)} |->
            IF u.ok THEN Ok(UUID(u.val)) ELSE Err("uuid Error")])

\* the match on starttag in parse_primitive_value, text joined and trimmed
PrimitiveOf(starttag, text, attrs) ==
    IF starttag = Str(<<"u","n","d","e","f">>) THEN Ok(Undefined)
    ELSE IF starttag = Str(<<"r","e","a","l">>) THEN
    Bind([x \in {ParseF64(IF Lowercase(text) = Str(<<"n","a","n">>) THEN Str(<<"N","a","N">>) ELSE text)} |->
           IF x.ok THEN Ok(Real(x.val)) ELSE Err("ParseFloatError")])
    ELSE IF starttag = Str(<<"i","n","t","e","g","e","r">>) THEN
    Bind([n \in {ParseI32(text)} |->
           IF n.ok THEN Ok(Integer(n.val)) ELSE Err("ParseIntError")])
    ELSE IF starttag = Str(<<"b","o","o","l","e","a","n">>) THEN
    Bind([x \in {xml_parse_boolean(text)} |->
           IF x.ok THEN Ok(Boolean(x.val)) ELSE Err("ParseBoolError")])
    ELSE IF starttag = Str(<<"s","t","r","i","n","g">>) THEN Ok(String(text))
    ELSE IF starttag = Str(<<"u","r","i">>) THEN Ok(String(text))
    ELSE IF starttag = Str(<<"u","u","i","d">>) THEN uuid_arm(text)
    ELSE IF starttag = Str(<<"d","a","t","e">>) THEN
    Bind([d \in {xml_parse_date(text)} |->
           IF d.ok THEN Ok(Date(d.val)) ELSE Err("chrono ParseError")])
    ELSE IF starttag = Str(<<"b","i","n","a","r","y">>) THEN
    Bind([x \in {xml_parse_binary(text, attrs)} |->
           IF x.ok THEN Ok(Binary(x.val)) ELSE Err("binary decode error")])
    ELSE Err("Unexpected primitive data type")

RECURSIVE xml_parse_primitive_value(_, _, _, _, _)
\* de/xml.rs parse_primitive_value: one turn of its loop, texts read so far
xml_parse_primitive_value(b, rd, starttag, attrs, texts) ==
    Bind([r \in {read_event(b, rd)} |->
        Bind([ev \in {r.ev} |->
        IF ev.k = "Text" THEN
    Bind([u \in {unescape_and_decode(ev.text)} |->
            IF ~u.ok THEN XErr("unescape error")
            ELSE xml_parse_primitive_value(b, r.rd, starttag, attrs, Append(texts, u.val))])
        ELSE IF ev.k = "End" THEN
            IF ~from_utf8(ev.name).ok THEN XErr("Utf8Error")
            ELSE IF starttag # ev.name THEN XErr("Unmatched XML tags")
            ELSE Bind([x \in {PrimitiveOf(starttag, trim(Join(texts)), attrs)} |->
                IF x.ok THEN XOk(x.val, r.rd) ELSE XErr(x.err)])
        ELSE IF ev.k = "Eof" THEN XErr("Unexpected end of data in primitive value")
        ELSE IF ev.k = "Comment" THEN xml_parse_primitive_value(b, r.rd, starttag, attrs, texts)
        ELSE IF ev.k = "Err" THEN XErr("Parse Error")
        ELSE XErr("Unexpected parse event")])])

RECURSIVE xml_parse_value(_, _, _, _), xml_parse_map(_, _, _), xml_parse_map_entry(_, _, _), xml_parse_array(_, _, _)
\* de/xml.rs parse_value
xml_parse_value(b, rd, starttag, attrs) ==
    IF starttag \in {Str(<<"u","n","d","e","f">>), Str(<<"r","e","a","l">>), Str(<<"i","n","t","e","g","e","r">>), Str(<<"b","o","o","l","e","a","n">>),
                     Str(<<"s","t","r","i","n","g">>), Str(<<"u","r","i">>), Str(<<"b","i","n","a","r","y">>),
                     Str(<<"u","u","i","d">>), Str(<<"d","a","t","e">>)}
        THEN xml_parse_primitive_value(b, rd, starttag, attrs, <<>>)
    ELSE IF starttag = Str(<<"m","a","p">>) THEN xml_parse_map(b, rd, EmptyMap)
    ELSE IF starttag = Str(<<"a","r","r","a","y">>) THEN xml_parse_array(b, rd, <<>>)
    ELSE XErr("Unknown data type")

\* de/xml.rs parse_map: one turn of its loop, map built so far
xml_parse_map(b, rd, map) ==
    Bind([r \in {read_event(b, rd)} |->
        Bind([ev \in {r.ev} |->
        IF ev.k = "Start" THEN
            IF ~from_utf8(ev.name).ok THEN XErr("Utf8Error")
            ELSE IF ev.name = Str(<<"k","e","y">>) THEN
    Bind([kv \in {xml_parse_map_entry(b, r.rd, <<>>)} |->
                IF ~kv.ok THEN kv
                ELSE xml_parse_map(b, kv.rd, Insert(map, kv.val.k, kv.val.v))])
            ELSE XErr("Expected 'key' in map")
        ELSE IF ev.k = "Text" THEN
            IF unescape_and_decode(ev.text).ok THEN xml_parse_map(b, r.rd, map)
            ELSE XErr("unescape error")
        ELSE IF ev.k = "End" THEN
            IF ~from_utf8(ev.name).ok THEN XErr("Utf8Error")
            ELSE IF ev.name # Str(<<"m","a","p">>) THEN XErr("Unmatched XML tags")
            ELSE XOk(Map(map), r.rd)
        ELSE IF ev.k = "Eof" THEN XErr("Unexpected end of data in map")
        ELSE IF ev.k = "Comment" THEN xml_parse_map(b, r.rd, map)
        ELSE IF ev.k = "Err" THEN XErr("Parse Error")
        ELSE XErr("Unexpected parse event")])])

\* de/xml.rs parse_map_entry: one turn of its loop; val is [k, v]
xml_parse_map_entry(b, rd, texts) ==
    Bind([r \in {read_event(b, rd)} |->
        Bind([ev \in {r.ev} |->
        IF ev.k = "Start" THEN
            IF ~from_utf8(ev.name).ok THEN XErr("Utf8Error")
            ELSE XErr("Expected 'key' in map")
        ELSE IF ev.k = "Text" THEN
    Bind([u \in {unescape_and_decode(ev.text)} |->
            IF ~u.ok THEN XErr("unescape error")
            ELSE xml_parse_map_entry(b, r.rd, Append(texts, u.val))])
        ELSE IF ev.k = "End" THEN
            IF ~from_utf8(ev.name).ok THEN XErr("Utf8Error")
            ELSE IF ev.name # Str(<<"k","e","y">>) THEN XErr("Unmatched XML tags")
            ELSE Bind([k \in {trim(Join(texts))} |->
    Bind([r2 \in {read_event(b, r.rd)} |->
                    IF r2.ev.k # "Start" THEN XErr("Unexpected parse error")
                    ELSE IF ~from_utf8(r2.ev.name).ok THEN XErr("Utf8Error")
                    ELSE Bind([x \in {xml_parse_value(b, r2.rd, r2.ev.name, r2.ev.attrs)} |->
                        IF ~x.ok THEN x ELSE XOk([k |-> k, v |-> x.val], x.rd)])])])
        ELSE IF ev.k = "Eof" THEN XErr("Unexpected end of data")
        ELSE IF ev.k = "Comment" THEN xml_parse_map_entry(b, r.rd, texts)
        ELSE IF ev.k = "Err" THEN XErr("Parse Error")
        ELSE XErr("Unexpected parse event")])])

\* de/xml.rs parse_array: one turn of its loop, items read so far
xml_parse_array(b, rd, items) ==
    Bind([r \in {read_event(b, rd)} |->
        Bind([ev \in {r.ev} |->
        IF ev.k = "Start" THEN
            IF ~from_utf8(ev.name).ok THEN XErr("Utf8Error")
            ELSE Bind([x \in {xml_parse_value(b, r.rd, ev.name, ev.attrs)} |->
                IF ~x.ok THEN x ELSE xml_parse_array(b, x.rd, Append(items, x.val))])
        ELSE IF ev.k = "Text" THEN
            IF unescape_and_decode(ev.text).ok THEN xml_parse_array(b, r.rd, items)
            ELSE XErr("unescape error")
        ELSE IF ev.k = "End" THEN
            IF ~from_utf8(ev.name).ok THEN XErr("Utf8Error")
            ELSE IF ev.name # Str(<<"a","r","r","a","y">>) THEN XErr("Unmatched XML tags")
            ELSE XOk(Array(items), r.rd)
        ELSE IF ev.k = "Eof" THEN XErr("Unexpected end of data")
        ELSE IF ev.k = "Comment" THEN xml_parse_array(b, r.rd, items)
        ELSE IF ev.k = "Err" THEN XErr("Parse Error")
        ELSE XErr("Unexpected parse event")])])

RECURSIVE from_reader_loop_last_llsd(_, _, _)
\* from_reader without its test of output.is_some(): a later <llsd> replaces
\* the value of an earlier one
from_reader_loop_last_llsd(b, rd, output) ==
    Bind([r \in {read_event(b, rd)} |->
        Bind([ev \in {r.ev} |->
        IF ev.k = "Start" THEN
            IF ev.name # Str(<<"l","l","s","d">>) THEN Err("Expected <llsd>")
            ELSE Bind([r2 \in {read_event(b, r.rd)} |->
                IF r2.ev.k # "Start" THEN Err("Expected LLSD data")
                ELSE IF ~from_utf8(r2.ev.name).ok THEN Err("Utf8Error")
                ELSE Bind([x \in {xml_parse_value(b, r2.rd, r2.ev.name, r2.ev.attrs)} |->
                    IF ~x.ok THEN Err(x.err)
                    ELSE from_reader_loop_last_llsd(b, x.rd, x.val)])])
        ELSE IF ev.k = "Eof" THEN
            IF output.t = "none" THEN Err("Unexpected end of data, no <llsd> block.")
            ELSE Ok(output)
        ELSE IF ev.k = "Err" THEN Err("Error at position")
        ELSE from_reader_loop_last_llsd(b, r.rd, output)])])

RECURSIVE from_reader_loop(_, _, _)
\* de/xml.rs from_reader: one turn of its outer loop, output found so far
from_reader_loop(b, rd, output) ==
    Bind([r \in {read_event(b, rd)} |->
        Bind([ev \in {r.ev} |->
        IF ev.k = "Start" THEN
            IF ev.name # Str(<<"l","l","s","d">>) THEN Err("Expected <llsd>")
            ELSE IF output.t # "none" THEN Err("More than one <llsd> block in data")
            ELSE Bind([r2 \in {read_event(b, r.rd)} |->
                IF r2.ev.k # "Start" THEN Err("Expected LLSD data")
                ELSE IF ~from_utf8(r2.ev.name).ok THEN Err("Utf8Error")
                ELSE Bind([x \in {xml_parse_value(b, r2.rd, r2.ev.name, r2.ev.attrs)} |->
                    IF ~x.ok THEN Err(x.err) ELSE from_reader_loop(b, x.rd, x.val)])])
        ELSE IF ev.k = "Eof" THEN
            IF output.t = "none" THEN Err("Unexpected end of data, no <llsd> block.")
            ELSE Ok(output)
        ELSE IF ev.k = "Err" THEN Err("Error at position")
        ELSE from_reader_loop(b, r.rd, output)])])

\* de/xml.rs from_reader on the bytes of the document
xml_from_reader(b) == from_reader_loop(b, XmlReader(1, "Closed", <<>>), NoValue)

\* de/xml.rs from_str, which de/mod.rs names: from_reader over the text's bytes
xml_from_str(xmlstr) == xml_from_reader(as_bytes(xmlstr))

\* ---- ser/xml.rs
\* xml_escape
RECURSIVE xml_escape(_)
xml_escape(s) ==
    IF s = <<>> THEN <<>>
    ELSE (CASE Head(s) = 60 -> Str(<<"&","l","t",";">>)
            [] Head(s) = 62 -> Str(<<"&","g","t",";">>)
            [] Head(s) = 39 -> Str(<<"&","a","p","o","s",";">>)
            [] Head(s) = 38 -> Str(<<"&","a","m","p",";">>)
            [] Head(s) = 34 -> Str(<<"&","q","u","o","t",";">>)
            [] OTHER -> <<Head(s)>>) \o xml_escape(Tail(s))

\* write!("{:1$}", " ", indent): indent spaces when indent > 0
Pad(indent) == [i \in 1..indent |-> 32]

\* generate_value's tag and tag_value
tag(name, close, indent) ==
    Pad(indent) \o <<60>> \o (IF close THEN <<47>> ELSE <<>>) \o name \o <<62, 10>>

tag_value(name, text, indent) ==
    Pad(indent) \o
    (IF text = <<>> THEN <<60>> \o name \o <<32, 47, 62, 10>>
     ELSE <<60>> \o name \o <<62>> \o xml_escape(text) \o <<60, 47>> \o name \o <<62, 10>>)

\* f64_to_xml
f64_to_xml(v) ==
    Bind([ss \in {F64ToString(v)} |->    IF ss = Str(<<"N","a","N">>) THEN Str(<<"n","a","n">>) ELSE ss])

RECURSIVE xml_generate_value(_, _, _, _), xml_generate_entries(_, _, _, _, _), xml_generate_items(_, _, _, _)
\* ser/xml.rs generate_value
xml_generate_value(val, spaces, indent, ord) ==
    CASE val.t = "Undefined" -> tag_value(Str(<<"u","n","d","e","f">>), <<>>, indent)
      [] val.t = "Boolean" ->
            tag_value(Str(<<"b","o","o","l","e","a","n">>), IF val.v THEN Str(<<"t","r","u","e">>) ELSE Str(<<"f","a","l","s","e">>), indent)
      [] val.t = "String" -> tag_value(Str(<<"s","t","r","i","n","g">>), val.v, indent)
      [] val.t = "URI" -> tag_value(Str(<<"u","r","i">>), val.v, indent)
      [] val.t = "Integer" -> tag_value(Str(<<"i","n","t","e","g","e","r">>), I32ToString(val.v), indent)
      [] val.t = "Real" -> tag_value(Str(<<"r","e","a","l">>), f64_to_xml(val.v), indent)
      [] val.t = "UUID" -> tag_value(Str(<<"u","u","i","d">>), UuidToString(val.v), indent)
      [] val.t = "Binary" -> tag_value(Str(<<"b","i","n","a","r","y">>), base64_encode(val.v), indent)
      [] val.t = "Date" -> tag_value(Str(<<"d","a","t","e">>), to_rfc3339(val.v), indent)
      [] val.t = "Map" ->
            tag(Str(<<"m","a","p">>), FALSE, indent)
            \o xml_generate_entries(val.v, IterKeys(val.v, ord), spaces, indent, ord)
            \o tag(Str(<<"m","a","p">>), TRUE, indent)
      [] val.t = "Array" ->
            tag(Str(<<"a","r","r","a","y">>), FALSE, indent)
            \o xml_generate_items(val.v, spaces, indent, ord)
            \o tag(Str(<<"a","r","r","a","y">>), TRUE, indent)

xml_generate_entries(m, keys, spaces, indent, ord) ==
    IF keys = <<>> THEN <<>>
    ELSE tag_value(Str(<<"k","e","y">>), Head(keys), indent + spaces)
         \o xml_generate_value(m[Head(keys)], spaces, indent + spaces, ord)
         \o xml_generate_entries(m, Tail(keys), spaces, indent, ord)

xml_generate_items(items, spaces, indent, ord) ==
    IF items = <<>> THEN <<>>
    ELSE xml_generate_value(Head(items), spaces, indent + spaces, ord)
         \o xml_generate_items(Tail(items), spaces, indent, ord)

\* ser/xml.rs to_writer and to_string
xml_to_string(val, do_indent, ord) ==
    LLSDXMLPREFIX \o xml_generate_value(val, IF do_indent THEN INDENT ELSE 0, 0, ord)
        \o Str(<<"<","/","l","l","s","d",">">>)

(***************************************************************************)
(* Format detection: de/mod.rs                                             *)
(***************************************************************************)
SnippetLen == 60

\* what an entry point did: the codec it invoked, on what input, what it
\* returned, and the snippet of a "not recognized" error
Dispatch(codec, input, res, snippet) ==
    [codec |-> codec, input |-> input, result |-> res, snippet |-> snippet]

NotRecognized == "LLSD format not recognized"

\* the zip with 0..60 of both entry points
Snippet(text) == SubSeq(text, 1, IF Len(text) < SnippetLen THEN Len(text) ELSE SnippetLen)

\* trim_ascii_start as it would be if it knew only the space and the newline
trim_space_and_newline(b) == Tail2(b, SkipWhile(b, 1, {32, 10}))

\* de/mod.rs trim_ascii_start
trim_ascii_start(b) == Tail2(b, SkipWhile(b, 1, {c \in 0..255 : is_ascii_whitespace(c)}))

\* the binary sentinel test of auto_from_bytes
HasBinarySentinel(msg) ==
    /\ Len(msg) >= Len(LLSDBINARYSENTINEL)
    /\ SubSeq(msg, 1, Len(LLSDBINARYSENTINEL)) = LLSDBINARYSENTINEL

\* the notation sentinel test of auto_from_bytes, on the trimmed message
HasNotationSentinel(msg) ==
    Bind([sentinel \in {as_bytes(trim_end(LLSDNOTATIONSENTINEL))} |->
    /\ Len(msg) >= Len(sentinel)
    /\ SubSeq(msg, 1, Len(sentinel)) = sentinel])

\* the last test of auto_from_bytes: binary without header
LooksLikeBinary(msg) == Len(msg) > 1 /\ msg[1] \in {Ch("{"), Ch("[")}

\* auto_from_str as it would be if it handed the notation decoder the text
\* with its sentinel
auto_from_str_keep_sentinel(msg_string0) ==
    Bind([msg_string \in {trim_start(msg_string0)} |->
        Bind([sentinel \in {trim_end(LLSDNOTATIONSENTINEL)} |->
        IF StartsWith(msg_string, sentinel) THEN
            Dispatch("notation_str", msg_string, notation_from_str(msg_string), <<>>)
        ELSE IF StartsWith(msg_string, LLSDXMLSENTINEL) THEN
            Dispatch("xml", msg_string, xml_from_str(msg_string), <<>>)
        ELSE Dispatch("none", <<>>, Err(NotRecognized), Snippet(msg_string))])])

\* de/mod.rs auto_from_str
auto_from_str(msg_string0) ==
    Bind([msg_string \in {trim_start(msg_string0)} |->
        Bind([sentinel \in {trim_end(LLSDNOTATIONSENTINEL)} |->
        IF StartsWith(msg_string, sentinel) THEN
    Bind([stripped \in {Tail2(msg_string, Len(sentinel) + 1)} |->
               Dispatch("notation_str", stripped, notation_from_str(stripped), <<>>)])
        ELSE IF StartsWith(msg_string, LLSDXMLSENTINEL) THEN
            Dispatch("xml", msg_string, xml_from_str(msg_string), <<>>)
        ELSE Dispatch("none", <<>>, Err(NotRecognized), Snippet(msg_string))])])

\* auto_from_bytes as it would be if the whitespace were trimmed before the
\* binary sentinel test as well
auto_from_bytes_trim_first(msg00) ==
    Bind([msg0 \in {trim_ascii_start(msg00)} |->
    IF HasBinarySentinel(msg0) THEN
    Bind([rest \in {Tail2(msg0, Len(LLSDBINARYSENTINEL) + 1)} |->
           Dispatch("binary", rest, binary_from_bytes(rest), <<>>)])
    ELSE IF HasNotationSentinel(msg0) THEN
    Bind([rest \in {Tail2(msg0, Len(trim_end(LLSDNOTATIONSENTINEL)) + 1)} |->
           Dispatch("notation_bytes", rest, notation_from_bytes(rest), <<>>)])
    ELSE Bind([msgstring \in {from_utf8(msg0)} |->
        IF ~msgstring.ok THEN Dispatch("none", <<>>, Err("Utf8Error"), <<>>)
        ELSE IF StartsWith(trim_start(msgstring.val), LLSDXMLSENTINEL) THEN
            Dispatch("xml", msgstring.val, xml_from_str(msgstring.val), <<>>)
        ELSE IF LooksLikeBinary(msg00) THEN
            Dispatch("binary", msg00, binary_from_bytes(msg00), <<>>)
        ELSE Dispatch("none", <<>>, Err(NotRecognized), Snippet(from_utf8(msg00).val))])])

\* de/mod.rs auto_from_bytes
auto_from_bytes(msg0) ==
    IF HasBinarySentinel(msg0) THEN
    Bind([rest \in {Tail2(msg0, Len(LLSDBINARYSENTINEL) + 1)} |->
           Dispatch("binary", rest, binary_from_bytes(rest), <<>>)])
    ELSE Bind([msg \in {trim_ascii_start(msg0)} |->
        IF HasNotationSentinel(msg) THEN
    Bind([rest \in {Tail2(msg, Len(trim_end(LLSDNOTATIONSENTINEL)) + 1)} |->
               Dispatch("notation_bytes", rest, notation_from_bytes(rest), <<>>)])
        ELSE Bind([msgstring \in {from_utf8(msg)} |->
            IF ~msgstring.ok THEN Dispatch("none", <<>>, Err("Utf8Error"), <<>>)
            ELSE IF StartsWith(trim_start(msgstring.val), LLSDXMLSENTINEL) THEN
                Dispatch("xml", msgstring.val, xml_from_str(msgstring.val), <<>>)
            ELSE IF LooksLikeBinary(msg0) THEN
                Dispatch("binary", msg0, binary_from_bytes(msg0), <<>>)
            ELSE Dispatch("none", <<>>, Err(NotRecognized), Snippet(from_utf8(msg0).val))])])

(***************************************************************************)
(* The trees and the messages of the model                                 *)
(***************************************************************************)
MaxWs == 2        \* longest run of leading whitespace
MaxDup == 2       \* most occurrences of one key in a map's source
MaxNest == 1      \* deepest wrapping of a tree in further arrays

R2_5 == F64Bits(FALSE, 1024, 1024)           \* 2.5
R123_5 == F64Bits(FALSE, 1029, 3808)         \* 123.5
RNeg0_25 == F64Bits(TRUE, 1021, 0)           \* -0.25
RInf == F64Bits(FALSE, 2047, 0)
Uuid1 == [i \in 1..16 |-> 15 * i]
MapOf1(k, x) == Map(Insert(EmptyMap, k, x))
MapOf2(k1, x1, k2, x2) == Map(Insert(Insert(EmptyMap, k1, x1), k2, x2))

\* one or more trees of every variant
Leaves ==
    << Undefined, Boolean(TRUE), Boolean(FALSE),
       Integer(0), Integer(42), Integer(-1), Integer(2147483647), Integer(-2147483647 - 1),
       Real(F64Zero), Real(R2_5), Real(R123_5), Real(RNeg0_25), Real(RInf), Real(F64NaN),
       UUID(NilUuid), UUID(Uuid1),
       String(<<>>), String(Str(<<"a">>)), String(Str(<<"H","e","l","l","o"," ","w","o","r","l","d">>)),
       String(Str(<<"a","\"","b","\\","c">>)), String(Str(<<" ","a">>)), String(Str(<<"<","&",">">>)),
       String(<<233>>), String(<<9786>>),
       Date(0), Date(1138804193), Date(-1),
       URI(<<>>), URI(Str(<<"a">>)), URI(Str(<<"h","t","t","p",":","/","/","x","/","a"," ","b">>)),
       Binary(<<>>), Binary(<<0, 255, 65>>) >>

Containers ==
    << Array(<<>>), Map(EmptyMap),
       Array(<<Integer(42), String(Str(<<"a">>))>>),
       Array(<<Map(EmptyMap)>>),
       Array(<<Map(EmptyMap), Integer(1)>>),
       MapOf1(Str(<<"a">>), Map(EmptyMap)),
       MapOf2(Str(<<"v","a","l","1">>), Real(R2_5), Str(<<"v","a","l","2">>), Integer(999)),
       MapOf1(Str(<<"i","t","'","s">>), Integer(1)),
       MapOf1(<<233>>, Boolean(TRUE)),
       MapOf2(Str(<<"a">>), Map(EmptyMap), Str(<<"b">>), Array(<<>>)) >>

RECURSIVE Nest(_, _)
\* x wrapped in d arrays
Nest(x, d) == IF d = 0 THEN x ELSE Array(<<Nest(x, d - 1)>>)

\* the trees handed to the encoders: [base, depth]
ValueAt(i, d) ==
    IF i <= Len(Leaves) THEN Nest(Leaves[i], d) ELSE Nest(Containers[i - Len(Leaves)], d)
ValueCount == Len(Leaves) + Len(Containers)

\* ---- messages handed to the decoders: whitespace, a sentinel, a payload
WsList == <<32, 10, 9, 13, 12, 11>>
WsRun(c, n) == [i \in 1..n |-> WsList[((c + i - 2) % Len(WsList)) + 1]]
WsRuns == {<<>>} \cup {WsRun(c, n) : c \in 1..Len(WsList), n \in 1..MaxWs}

SentinelKinds == {"none", "binary", "notation", "notation_nl", "xml"}
SentinelBytes(kind) ==
    CASE kind = "none" -> <<>>
      [] kind = "binary" -> LLSDBINARYSENTINEL
      [] kind = "notation" -> as_bytes(trim_end(LLSDNOTATIONSENTINEL))
      [] kind = "notation_nl" -> as_bytes(LLSDNOTATIONSENTINEL)
      [] kind = "xml" -> as_bytes(LLSDXMLSENTINEL)

\* a map source that lists the key a n times, with the values 1..n
RECURSIVE DupBinaryEntries(_, _), DupNotationEntries(_, _), DupXmlEntries(_, _)
DupBinaryEntries(j, n) ==
    IF j > n THEN <<>>
    ELSE <<Ch("k"), 0, 0, 0, 1, Ch("a"), Ch("i")>> \o I32BE(j) \o DupBinaryEntries(j + 1, n)
DupBinary(n) == <<Ch("{")>> \o U32BE(n) \o DupBinaryEntries(1, n) \o <<Ch("}")>>
DupNotationEntries(j, n) ==
    IF j > n THEN <<>>
    ELSE (IF j > 1 THEN <<Ch(",")>> ELSE <<>>) \o Str(<<"'","a","'",":","i">>) \o I32ToString(j)
         \o DupNotationEntries(j + 1, n)
DupNotation(n) == <<Ch("{")>> \o DupNotationEntries(1, n) \o <<Ch("}")>>
DupXmlEntries(j, n) ==
    IF j > n THEN <<>>
    ELSE Str(<<"<","k","e","y",">","a","<","/","k","e","y",">","<","i","n","t","e","g","e","r",">">>) \o I32ToString(j) \o Str(<<"<","/","i","n","t","e","g","e","r",">">>)
         \o DupXmlEntries(j + 1, n)
XmlDeclRest == Str(<<" ","v","e","r","s","i","o","n","=","\"","1",".","0","\"","?",">">>)
DupXml(n, nested) ==
    XmlDeclRest \o Str(<<"<","l","l","s","d",">">>) \o (IF nested THEN Str(<<"<","a","r","r","a","y",">">>) ELSE <<>>)
    \o Str(<<"<","m","a","p",">">>) \o DupXmlEntries(1, n) \o Str(<<"<","/","m","a","p",">">>)
    \o (IF nested THEN Str(<<"<","/","a","r","r","a","y",">">>) ELSE <<>>) \o Str(<<"<","/","l","l","s","d",">">>)

DupPayloads ==
    UNION {{ DupBinary(n),
             <<Ch("[")>> \o U32BE(1) \o DupBinary(n) \o <<Ch("]")>>,
             DupNotation(n),
             <<Ch("[")>> \o DupNotation(n) \o <<Ch("]")>>,
             DupXml(n, FALSE), DupXml(n, TRUE) } : n \in 2..MaxDup}

NotationPayloads ==
    { Str(<<"[","]">>), Str(<<"i","4","2">>), <<34, 195, 169, 34>>,
      Str(<<"{","'","k","'",":","\"","v","\"","}","\n">>), Str(<<"b","6","4","\"","Q","U","J","D","\"">>), Str(<<"s","(","1",")","\"","a","\"">>) }

XmlPayloads ==
    { XmlDeclRest \o Str(<<"<","l","l","s","d",">","<","i","n","t","e","g","e","r","/",">","<","/","l","l","s","d",">">>),
      XmlDeclRest \o Str(<<"<","l","l","s","d",">","<","i","n","t","e","g","e","r",">","<","/","i","n","t","e","g","e","r",">","<","/","l","l","s","d",">">>),
      XmlDeclRest \o Str(<<"<","l","l","s","d",">","<","s","t","r","i","n","g",">","x","<","/","s","t","r","i","n","g",">","<","/","l","l","s","d",">">>) }

BinaryPayloads ==
    { <<Ch("i"), 0, 0, 0, 42>>,
      <<Ch("["), 0, 0, 0, 1, Ch("i"), 255, 255, 255, 255, Ch("]")>>,
      <<Ch("["), 0, 0, 0, 1, Ch("r"), 63, 240, 0, 0, 0, 0, 0, 0, Ch("]")>>,
      <<Ch("{"), 0, 0, 0, 0, Ch("}")>>,
      <<Ch("[")>>, <<Ch("{")>> }

JunkPayloads == { <<>>, Str(<<"h","e","l","l","o">>), <<255, 120>> }

Payloads == NotationPayloads \cup XmlPayloads \cup BinaryPayloads \cup JunkPayloads \cup DupPayloads

\* ---- whole documents handed to one decoder
\* an XML document, after its first five bytes "<?xml": inner inside <llsd>
XmlDoc(inner) == XmlDeclRest \o Str(<<"<","l","l","s","d",">">>) \o inner \o Str(<<"<","/","l","l","s","d",">">>)
Element(name, text) == <<60>> \o name \o <<62>> \o text \o <<60, 47>> \o name \o <<62>>
EmptyElement(name) == <<60>> \o name \o <<47, 62>>
BothEmpty(name) == {EmptyElement(name), Element(name, <<>>)}

PrimitiveTags ==
    { Str(<<"u","n","d","e","f">>), Str(<<"b","o","o","l","e","a","n">>), Str(<<"i","n","t","e","g","e","r">>), Str(<<"r","e","a","l">>), Str(<<"s","t","r","i","n","g">>), Str(<<"u","r","i">>), Str(<<"u","u","i","d">>), Str(<<"d","a","t","e">>),
      Str(<<"b","i","n","a","r","y">>) }

UuidTexts ==
    { Str(<<"6","7","1","5","3","d","5","b","-","3","6","5","9","-","a","f","b","4","-","8","5","1","0","-","a","d","d","a","2","c","0","3","4","6","4","9">>), Str(<<"6","7","1","5","3","D","5","B","-","3","6","5","9","-","A","F","B","4","-","8","5","1","0","-","A","D","D","A","2","C","0","3","4","6","4","9">>),
      Str(<<"6","7","1","5","3","d","5","b","3","6","5","9","a","f","b","4","8","5","1","0","a","d","d","a","2","c","0","3","4","6","4","9">>), Str(<<"0","0","0","0","0","0","0","0","-","0","0","0","0","-","0","0","0","0","-","0","0","0","0","-","0","0","0","0","0","0","0","0","0","0","0","0">>),
      Str(<<"6","7","1","5","3","d","5","b","-","3","6","5","9","-","a","f","b","4","-","8","5","1","0","-","a","d","d","a","2","c","0","3","4","6","4">>), Str(<<"6","7","1","5","3","d","5","b","-","3","6","5","9","-","a","f","b","4","-","8","5","1","0","-","a","d","d","a","2","c","0","3","4","6","4","g">>),
      Str(<<"6","7","1","5","3","d","5","b"," ","3","6","5","9","-","a","f","b","4","-","8","5","1","0","-","a","d","d","a","2","c","0","3","4","6","4","9">>), Str(<<"z","z">>), Str(<<"0">>) }

UuidDocs ==
    {Element(Str(<<"u","u","i","d">>), t) : t \in UuidTexts}
    \cup { Element(Str(<<"u","u","i","d">>), Str(<<" "," ">>)), Element(Str(<<"u","u","i","d">>), Str(<<" ","6","7","1","5","3","d","5","b","-","3","6","5","9","-","a","f","b","4","-","8","5","1","0","-","a","d","d","a","2","c","0","3","4","6","4","9","\n">>)) }

One == Element(Str(<<"i","n","t","e","g","e","r">>), Str(<<"1">>))
Two == Element(Str(<<"i","n","t","e","g","e","r">>), Str(<<"2">>))

\* one element of every tag name of the format, with the variant of its name
TaggedValues ==
    { [doc |-> EmptyElement(Str(<<"u","n","d","e","f">>)), t |-> "Undefined"],
      [doc |-> Element(Str(<<"b","o","o","l","e","a","n">>), Str(<<"t","r","u","e">>)), t |-> "Boolean"],
      [doc |-> Element(Str(<<"i","n","t","e","g","e","r">>), Str(<<"4","2">>)), t |-> "Integer"],
      [doc |-> Element(Str(<<"r","e","a","l">>), Str(<<"2",".","5">>)), t |-> "Real"],
      [doc |-> Element(Str(<<"s","t","r","i","n","g">>), Str(<<"x">>)), t |-> "String"],
      [doc |-> Element(Str(<<"u","r","i">>), Str(<<"h","t","t","p",":","/","/","a",".","b","/","c">>)), t |-> "URI"],
      [doc |-> Element(Str(<<"u","u","i","d">>), Str(<<"6","7","1","5","3","d","5","b","-","3","6","5","9","-","a","f","b","4","-","8","5","1","0","-","a","d","d","a","2","c","0","3","4","6","4","9">>)), t |-> "UUID"],
      [doc |-> Element(Str(<<"d","a","t","e">>), Str(<<"2","0","0","6","-","0","2","-","0","1","T","1","4",":","2","9",":","5","3","Z">>)), t |-> "Date"],
      [doc |-> Element(Str(<<"b","i","n","a","r","y">>), Str(<<"Q","U","J","D">>)), t |-> "Binary"],
      [doc |-> Element(Str(<<"m","a","p">>), Str(<<"<","k","e","y",">","a","<","/","k","e","y",">","<","i","n","t","e","g","e","r",">","1","<","/","i","n","t","e","g","e","r",">">>)), t |-> "Map"],
      [doc |-> Element(Str(<<"a","r","r","a","y">>), One), t |-> "Array"] }
UnknownTags ==
    { Element(Str(<<"i","n","t">>), Str(<<"1">>)), Element(Str(<<"S","t","r","i","n","g">>), Str(<<"x">>)), Element(Str(<<"k","e","y">>), Str(<<"a">>)),
      Element(Str(<<"l","l","s","d">>), One), Element(Str(<<"u","r","l">>), Str(<<"h","t","t","p",":","/","/","a",".","b","/","c">>)), EmptyElement(Str(<<"n","u","l","l">>)),
      Element(Str(<<"a","r","r","a","y">>), Element(Str(<<"f","l","o","a","t">>), Str(<<"1",".","0">>))),
      Element(Str(<<"m","a","p">>), Str(<<"<","k","e","y",">","a","<","/","k","e","y",">","<","t","e","x","t",">","x","<","/","t","e","x","t",">">>)) }

XmlInners ==
    UNION {BothEmpty(t) : t \in PrimitiveTags} \cup UuidDocs
        \cup {tv.doc : tv \in TaggedValues} \cup UnknownTags

\* documents by what stands at their root, after the XML declaration
OneValueBody == Element(Str(<<"l","l","s","d">>), One)
NoValueBodies == { Element(Str(<<"l","l","s","d">>), <<>>), EmptyElement(Str(<<"l","l","s","d">>)), Element(Str(<<"l","l","s","d">>), Str(<<"\n">>)) }
TwoValueBodies ==
    { Element(Str(<<"l","l","s","d">>), One \o Two), Element(Str(<<"l","l","s","d">>), One \o Str(<<"\n">>) \o Two),
      Element(Str(<<"l","l","s","d">>), EmptyElement(Str(<<"a","r","r","a","y">>)) \o EmptyElement(Str(<<"m","a","p">>))),
      Element(Str(<<"l","l","s","d">>), One \o Two \o One) }
TwoRootBodies ==
    { OneValueBody \o OneValueBody, OneValueBody \o Str(<<"\n">>) \o Element(Str(<<"l","l","s","d">>), Two),
      OneValueBody \o EmptyElement(Str(<<"l","l","s","d">>)) }
OtherRootBodies ==
    { Element(Str(<<"L","L","S","D">>), One), Element(Str(<<"x","m","l">>), OneValueBody), One, Element(Str(<<"a","r","r","a","y">>), One),
      Element(Str(<<"l","l","s","d","x">>), One) }
NoRootBodies == { <<>>, Str(<<"\n">>), Str(<<"<","!","-","-"," ","l","l","s","d"," ","-","-",">">>), Str(<<"l","l","s","d">>) }
RootBodies ==
    {OneValueBody} \cup NoValueBodies \cup TwoValueBodies \cup TwoRootBodies
        \cup OtherRootBodies \cup NoRootBodies

\* notation texts with the length-counted productions s(N)"..." and b(N)"..."
CountTexts ==
    { Str(<<"-","1">>), Str(<<"-","0">>), Str(<<"0">>), Str(<<"1">>), Str(<<"+","2">>), Str(<<"2">>), Str(<<"3">>), Str(<<"2","1","4","7","4","8","3","6","4","7">>), Str(<<"-","2","1","4","7","4","8","3","6","4","8">>) }
ChunkTexts == { <<>>, Str(<<"\"">>), Str(<<"\"","\"">>), Str(<<"\"","a","\"">>), Str(<<"\"","a","b","\"">>), Str(<<"\"","a","b","c">>) }
Sized(letter, n, rest) == <<letter, Ch("(")>> \o n \o <<Ch(")")>> \o rest
SizedTexts ==
    {Sized(letter, n, rest) : letter \in {Ch("s"), Ch("b")}, n \in CountTexts, rest \in ChunkTexts}
        \cup { Str(<<"[","s","(","1",")","\"","a","\"","]">>), Str(<<"{","'","k","'",":","b","(","2",")","\"","a","b","\"","}">>), Str(<<" ","s","(","2",")","\"","a","b","\"">>), Str(<<"[","i","1",",","b","(","1",")","\"","a","\"","]">>) }

\* notation texts with the binary forms b16"hex" and b64"base64"
EncodedBinaryTexts ==
    { Str(<<"b","6","4","\"","Q","U","J","D","\"">>), Str(<<"b","6","4","\"","\"">>), Str(<<"b","6","4","\"","A","P","9","B","\"">>), Str(<<"b","1","6","\"","4","1","4","2","4","3","\"">>), Str(<<"b","1","6","\"","\"">>), Str(<<"b","1","6","\"","0","0","f","f","4","1","\"">>),
      Str(<<"[","b","6","4","\"","Q","U","J","D","\"","]">>), Str(<<"{","'","k","'",":","b","1","6","\"","4","1","\"","}">>) }

\* notation string literals, as text: both quotes, escapes, whitespace at
\* either end and inside, characters outside ASCII, text after the literal
QuotedTexts ==
    { Str(<<"\"","a","b","c","\"">>), Str(<<"'","a","b","c","'">>), Str(<<"\"","\"">>), Str(<<"'","'">>), Str(<<"\"","a"," ","b","\"">>), Str(<<"\""," ","a","\"">>), Str(<<"'"," "," ","a","'">>), Str(<<"\"","a"," ","\"">>), Str(<<"\""," ","\"">>),
      Str(<<"\"","\n","a","\"">>), Str(<<"\"","a","\n","b","\"">>), Str(<<"\"","\\","t","a","\"">>), Str(<<"\"","a","'","b","\"">>), Str(<<"'","a","\"","b","'">>), Str(<<"\"","a","\"","b","\"">>), Str(<<"'","a","'","b","'">>),
      <<34, 92, 34, 34>>, <<39, 97, 92, 39, 98, 39>>, <<34, 97, 92, 92, 98, 34>>,
      <<34, 92, 110, 34>>, <<34, 92, 32, 97, 34>>, <<34, 32, 92, 34, 32, 34>>,
      <<34, 233, 34>>, <<39, 97, 9786, 98, 39>>, <<34, 92, 233, 34>> }

\* notation texts that start with one of t, T, f, F: the eight spellings of
\* the format, other spellings, and spellings with a character after them
BooleanTexts ==
    { Str(<<"t">>), Str(<<"T">>), Str(<<"t","r","u","e">>), Str(<<"T","R","U","E">>), Str(<<"f">>), Str(<<"F">>), Str(<<"f","a","l","s","e">>), Str(<<"F","A","L","S","E">>),
      Str(<<"T","r","u","e">>), Str(<<"t","R","U","E">>), Str(<<"F","a","l","s","e">>), Str(<<"f","A","L","S","E">>), Str(<<"t","r","u">>), Str(<<"t","r","u","e","e">>), Str(<<"T","R","U","E","x">>), Str(<<"f","a","l","s">>), Str(<<"t","f">>), Str(<<"f","t">>), Str(<<"T","t">>),
      Str(<<"t","1">>), Str(<<"f","0">>), Str(<<"t","r","u","e"," ">>), Str(<<"f","a","l","s","e",",">>), Str(<<"T","]">>), Str(<<"F","}">>), Str(<<"t","\"">>), Str(<<"t","r","u","e","!">>),
      <<116, 233>>, <<116, 169>>, <<102, 9786>> }

\* notation containers of Boolean tokens, with the tree each spells
BooleanLists ==
    { [text |-> Str(<<"[","t",",","F","]">>), val |-> Array(<<Boolean(TRUE), Boolean(FALSE)>>)],
      [text |-> Str(<<"[","t","r","u","e",",","F","A","L","S","E",",","0",",","1","]">>),
       val |-> Array(<<Boolean(TRUE), Boolean(FALSE), Boolean(FALSE), Boolean(TRUE)>>)],
      [text |-> Str(<<"[","T","R","U","E"," ","f","a","l","s","e","]">>), val |-> Array(<<Boolean(TRUE), Boolean(FALSE)>>)],
      [text |-> Str(<<"{","'","a","'",":","f","a","l","s","e","}">>), val |-> MapOf1(Str(<<"a">>), Boolean(FALSE))],
      [text |-> Str(<<"[","T","r","u","e","]">>), val |-> NoValue],
      [text |-> Str(<<"[","t","R","U","E",",","t","]">>), val |-> NoValue],
      [text |-> Str(<<"{","'","a","'",":","f","A","L","S","E","}">>), val |-> NoValue],
      [text |-> Str(<<"[","t","t","]">>), val |-> NoValue] }

\* notation texts as lists of tokens, with the places where the format allows
\* whitespace: before a value, before ':', and before ',', '}' or ']'
TokenLists ==
    { [toks |-> <<Str(<<"i","4","2">>)>>, slots |-> {1}],
      [toks |-> <<Str(<<"[">>), Str(<<"i","1">>), Str(<<",">>), Str(<<"i","2">>), Str(<<"]">>)>>, slots |-> 2..5],
      [toks |-> <<Str(<<"{">>), Str(<<"'","a","'">>), Str(<<":">>), Str(<<"i","1">>), Str(<<",">>), Str(<<"'","b","'">>), Str(<<":">>), Str(<<"t">>), Str(<<"}">>)>>,
       slots |-> {3, 4, 5, 7, 8, 9}],
      [toks |-> <<Str(<<"[">>), Str(<<"[">>), Str(<<"]">>), Str(<<",">>), Str(<<"\"","x","\"">>), Str(<<"]">>)>>, slots |-> 2..6],
      [toks |-> <<Str(<<"[">>), Str(<<"{">>), Str(<<"'","a","'">>), Str(<<":">>), Str(<<"i","1">>), Str(<<"}">>), Str(<<"]">>)>>, slots |-> {2, 4, 5, 6, 7}],
      [toks |-> <<Str(<<"{">>), Str(<<"'","a","'">>), Str(<<":">>), Str(<<"{">>), Str(<<"}">>), Str(<<",">>), Str(<<"'","b","'">>), Str(<<":">>), Str(<<"i","2">>), Str(<<"}">>)>>,
       slots |-> {3, 4, 5, 6, 8, 9, 10}] }

\* runs of the two characters the format skips, and runs with another one
SkippedRuns == { <<32>>, <<10>>, <<32, 32>>, <<10, 32>>, <<32, 10, 10>> }
OtherRuns == { <<9>>, <<13>>, <<32, 9>>, <<12>> }

\* the text of the tokens, with ws put before token k
Spaced(toks, k, ws) == Concat([i \in 1..Len(toks) |-> IF i = k THEN ws \o toks[i] ELSE toks[i]])
SpacedTexts(runs) ==
    UNION {{Spaced(l.toks, k, ws) : k \in l.slots, ws \in runs} : l \in TokenLists}

\* map and array literals with one entry or more, cut before a closing
\* bracket where a trailing comma may stand
CommaLiterals ==
    { [body |-> Str(<<"[","i","1">>), close |-> Str(<<"]">>)],
      [body |-> Str(<<"[","i","1",",","i","2">>), close |-> Str(<<"]">>)],
      [body |-> Str(<<"{","'","a","'",":","i","1">>), close |-> Str(<<"}">>)],
      [body |-> Str(<<"{","'","a","'",":","i","1",",","'","b","'",":","t">>), close |-> Str(<<"}">>)],
      [body |-> Str(<<"[","[","i","1","]">>), close |-> Str(<<"]">>)],
      [body |-> Str(<<"[","[","i","1">>), close |-> Str(<<"]",",","i","2","]">>)],
      [body |-> Str(<<"{","'","a","'",":","[","i","1">>), close |-> Str(<<"]","}">>)],
      [body |-> Str(<<"[","{","'","a","'",":","i","1","}">>), close |-> Str(<<"]">>)],
      [body |-> Str(<<"[","{","'","a","'",":","i","1">>), close |-> Str(<<"}","]">>)],
      [body |-> Str(<<"{","'","a","'",":","{","}">>), close |-> Str(<<"}">>)] }

\* literals with a comma that no value stands before
BadCommaTexts ==
    { Str(<<"[",",","]">>), Str(<<"[",",","i","1","]">>), Str(<<"[","i","1",",",",","i","2","]">>), Str(<<"[","i","1",",",",","]">>), Str(<<"[","[",",","]","]">>), Str(<<"[","[","i","1","]",",",",","]">>),
      Str(<<"{",",","}">>), Str(<<"{","'","a","'",":","i","1",",",",","}">>), Str(<<"{","'","a","'",":","i","1",",",",","'","b","'",":","i","2","}">>),
      Str(<<"[","{","'","a","'",":","i","1","}",",",",","]">>), Str(<<"{","'","a","'",":","{","}",",",",","'","b","'",":","i","2","}">>) }

\* map and array literals, and what may stand right after one
ContainerLiterals == { Str(<<"{","}">>), Str(<<"{","'","a","'",":","i","1","}">>), Str(<<"{","'","a","'",":","i","1",",","}">>), Str(<<"[","]">>), Str(<<"[","i","1","]">>), Str(<<"[","[","]","]">>), Str(<<"[","i","1",",","]">>) }
Followers == { <<>>, Str(<<",">>), Str(<<"]">>), Str(<<"}">>), Str(<<" ">>), Str(<<"x">>), Str(<<",","i","2","]">>) }

\* a map or an array inside another container, with the tree the text spells
NestedLiterals ==
    { [text |-> Str(<<"[","{","}","]">>), val |-> Array(<<Map(EmptyMap)>>)],
      [text |-> Str(<<"[","[","]","]">>), val |-> Array(<<Array(<<>>)>>)],
      [text |-> Str(<<"{","'","a","'",":","{","}","}">>), val |-> MapOf1(Str(<<"a">>), Map(EmptyMap))],
      [text |-> Str(<<"{","'","a","'",":","[","]","}">>), val |-> MapOf1(Str(<<"a">>), Array(<<>>))],
      [text |-> Str(<<"[","{","'","a","'",":","i","1","}",",","i","2","]">>), val |-> Array(<<MapOf1(Str(<<"a">>), Integer(1)), Integer(2)>>)],
      [text |-> Str(<<"[","[","i","1","]",",","i","2","]">>), val |-> Array(<<Array(<<Integer(1)>>), Integer(2)>>)],
      [text |-> Str(<<"{","'","a","'",":","{","'","b","'",":","i","1","}",",","'","c","'",":","i","2","}">>),
       val |-> MapOf2(Str(<<"a">>), MapOf1(Str(<<"b">>), Integer(1)), Str(<<"c">>), Integer(2))],
      [text |-> Str(<<"[","{","'","a","'",":","i","1","}","]">>), val |-> Array(<<MapOf1(Str(<<"a">>), Integer(1))>>)] }

\* what may follow the letter i: runs of digits and signs, with the number
\* each spells in 32 bits, or none
IntegerRuns ==
    { [run |-> Str(<<"0">>), ok |-> TRUE, n |-> 0], [run |-> Str(<<"4","2">>), ok |-> TRUE, n |-> 42],
      [run |-> Str(<<"-","1">>), ok |-> TRUE, n |-> -1], [run |-> Str(<<"+","5">>), ok |-> TRUE, n |-> 5],
      [run |-> Str(<<"-","0">>), ok |-> TRUE, n |-> 0], [run |-> Str(<<"0","0","7">>), ok |-> TRUE, n |-> 7],
      [run |-> Str(<<"0","0","0","0","0","0","0","0","0","0","0","4","2">>), ok |-> TRUE, n |-> 42],
      [run |-> Str(<<"2","1","4","7","4","8","3","6","4","7">>), ok |-> TRUE, n |-> 2147483647],
      [run |-> Str(<<"+","2","1","4","7","4","8","3","6","4","7">>), ok |-> TRUE, n |-> 2147483647],
      [run |-> Str(<<"-","2","1","4","7","4","8","3","6","4","8">>), ok |-> TRUE, n |-> (-2147483647) - 1] }
        \cup {[run |-> r, ok |-> FALSE, n |-> 0] :
                r \in { Str(<<"2","1","4","7","4","8","3","6","4","8">>), Str(<<"-","2","1","4","7","4","8","3","6","4","9">>), Str(<<"9","9","9","9","9","9","9","9","9","9","9">>), Str(<<"4","2","9","4","9","6","7","2","9","5">>), Str(<<"4","2","9","4","9","6","7","2","9","6">>),
                        Str(<<"4","2","9","4","9","6","7","3","3","8">>), Str(<<"-","4","2","9","4","9","6","7","2","9","5">>), Str(<<"2","1","4","7","4","8","3","6","5","0">>), <<>>, Str(<<"+">>), Str(<<"-">>),
                        Str(<<"1","-","2">>), Str(<<"-","-","1">>), Str(<<"+","-","1">>), Str(<<"1","+">>), Str(<<"-","+","1">>), Str(<<"1","2","-">>), Str(<<"1","-">>) }}
AfterRun == { <<>>, Str(<<"x">>), Str(<<" ","7">>), Str(<<".","5">>) }

\* containers of integers, with the tree each spells
IntegerLists ==
    { [text |-> Str(<<"[","i","1",",","i","-","2","]">>), val |-> Array(<<Integer(1), Integer(-2)>>)],
      [text |-> Str(<<"{","'","a","'",":","i","+","7","}">>), val |-> MapOf1(Str(<<"a">>), Integer(7))],
      [text |-> Str(<<"[","i","2","1","4","7","4","8","3","6","4","8","]">>), val |-> NoValue],
      [text |-> Str(<<"[","i",",","i","1","]">>), val |-> NoValue],
      [text |-> Str(<<"[","i","1","-","]">>), val |-> NoValue],
      [text |-> Str(<<"{","'","a","'",":","i","-","}">>), val |-> NoValue] }

NotationTexts ==
    SizedTexts \cup EncodedBinaryTexts
        \cup {as_bytes(t) : t \in QuotedTexts \cup BooleanTexts \cup {Str(<<"0">>), Str(<<"1">>)}}
        \cup {l.text : l \in BooleanLists}
        \cup SpacedTexts({<<>>} \cup SkippedRuns \cup OtherRuns)
        \cup {l.body \o sep \o l.close : l \in CommaLiterals, sep \in {<<>>, Str(<<",">>)}}
        \cup BadCommaTexts
        \cup {c \o f : c \in ContainerLiterals, f \in Followers}
        \cup {l.text : l \in NestedLiterals}
        \cup {Str(<<"i">>) \o r.run \o f : r \in IntegerRuns, f \in AfterRun}
        \cup {l.text : l \in IntegerLists}

\* binary maps and arrays: a tag, a count, the entries or items, a closing byte
BinInt(n) == <<Ch("i")>> \o I32BE(n)
BinEntry(prefix, key, val) == <<prefix>> \o U32BE(Len(key)) \o key \o val
BinContainer(open, n, body, close) == <<open>> \o U32BE(n) \o body \o close
EntryA == BinEntry(Ch("k"), Str(<<"a">>), BinInt(1))
EntryB == BinEntry(Ch("k"), Str(<<"b">>), BinInt(2))
MapAB == MapOf2(Str(<<"a">>), Integer(1), Str(<<"b">>), Integer(2))

\* well-formed ones, with the tree each spells
GoodBinary ==
    { [b |-> BinContainer(Ch("{"), 0, <<>>, Str(<<"}">>)), val |-> Map(EmptyMap)],
      [b |-> BinContainer(Ch("{"), 1, EntryA, Str(<<"}">>)), val |-> MapOf1(Str(<<"a">>), Integer(1))],
      [b |-> BinContainer(Ch("{"), 2, EntryA \o EntryB, Str(<<"}">>)), val |-> MapAB],
      [b |-> BinContainer(Ch("["), 0, <<>>, Str(<<"]">>)), val |-> Array(<<>>)],
      [b |-> BinContainer(Ch("["), 2, BinInt(1) \o BinInt(2), Str(<<"]">>)),
       val |-> Array(<<Integer(1), Integer(2)>>)],
      [b |-> BinContainer(Ch("["), 1, BinContainer(Ch("{"), 1, EntryA, Str(<<"}">>)), Str(<<"]">>)),
       val |-> Array(<<MapOf1(Str(<<"a">>), Integer(1))>>)],
      [b |-> BinContainer(Ch("{"), 1,
                          BinEntry(Ch("k"), Str(<<"a">>), BinContainer(Ch("["), 1, BinInt(1), Str(<<"]">>))), Str(<<"}">>)),
       val |-> MapOf1(Str(<<"a">>), Array(<<Integer(1)>>))] }

\* a closing byte that is not the container's own, or none
BadCloseBinary ==
    UNION {{ BinContainer(Ch("{"), 1, EntryA, close),
             BinContainer(Ch("{"), 0, <<>>, close),
             BinContainer(Ch("["), 1, BinContainer(Ch("{"), 1, EntryA, close), Str(<<"]">>)) }
           : close \in {Str(<<"]">>), Str(<<")">>), <<0>>, <<>>, Str(<<"{">>)}}
    \cup UNION {{ BinContainer(Ch("["), 2, BinInt(1) \o BinInt(2), close),
                  BinContainer(Ch("["), 0, <<>>, close),
                  BinContainer(Ch("{"), 1,
                               BinEntry(Ch("k"), Str(<<"a">>), BinContainer(Ch("["), 1, BinInt(1), close)),
                               Str(<<"}">>)) }
                : close \in {Str(<<"}">>), Str(<<")">>), <<0>>, <<>>, Str(<<"[">>)}}

\* an entry that starts with another byte than 'k'
BadKeyBinary ==
    UNION {{ BinContainer(Ch("{"), 1, BinEntry(prefix, Str(<<"a">>), BinInt(1)), Str(<<"}">>)),
             BinContainer(Ch("{"), 2, EntryA \o BinEntry(prefix, Str(<<"b">>), BinInt(2)), Str(<<"}">>)),
             BinContainer(Ch("["), 1,
                          BinContainer(Ch("{"), 1, BinEntry(prefix, Str(<<"a">>), BinInt(1)), Str(<<"}">>)), Str(<<"]">>)) }
           : prefix \in {Ch("s"), Ch("K"), Ch("}"), 0}}

\* a count that is not the number of entries or items that follow
BadCountBinary ==
    { BinContainer(Ch("{"), 2, EntryA, Str(<<"}">>)), BinContainer(Ch("{"), 0, EntryA, Str(<<"}">>)),
      BinContainer(Ch("{"), 1, EntryA \o EntryB, Str(<<"}">>)),
      BinContainer(Ch("["), 2, BinInt(1), Str(<<"]">>)), BinContainer(Ch("["), 0, BinInt(1), Str(<<"]">>)),
      BinContainer(Ch("["), 1, BinInt(1) \o BinInt(2), Str(<<"]">>)) }

\* one complete binary value of every type code, and the containers above
BinVariable(typecode, bytes) == <<typecode>> \o U32BE(Len(bytes)) \o bytes
WholeBinary ==
    { <<Ch("!")>>, <<Ch("0")>>, <<Ch("1")>>, BinInt(42), BinInt(-1),
      <<Ch("r"), 64, 4, 0, 0, 0, 0, 0, 0>>, <<Ch("u")>> \o Uuid1,
      <<Ch("d")>> \o I64BE(1138804193),
      BinVariable(Ch("s"), <<>>), BinVariable(Ch("s"), Str(<<"a","b">>)), BinVariable(Ch("s"), <<195, 169>>),
      BinVariable(Ch("l"), Str(<<"h","t","t","p",":","/","/","x">>)), BinVariable(Ch("b"), <<0, 255, 65>>),
      BinContainer(Ch("["), 2, BinVariable(Ch("s"), Str(<<"a">>)) \o <<Ch("!")>>, Str(<<"]">>)),
      BinContainer(Ch("{"), 1, BinEntry(Ch("k"), Str(<<"k">>), BinVariable(Ch("b"), <<7>>)), Str(<<"}">>)) }
        \cup {g.b : g \in GoodBinary}

\* every proper prefix of a complete value: the value cut short
ProperPrefixes(p) == {SubSeq(p, 1, n) : n \in 0..(Len(p) - 1)}
CutBinary == UNION {ProperPrefixes(p) : p \in WholeBinary}

\* bytes after a complete value: a zero, an unknown type code, another value,
\* a closing bracket, bytes that are no UTF-8
Trailers ==
    { <<0>>, <<Ch("!")>>, <<Ch("i"), 0, 0, 0, 7>>, Str(<<"]", "}">>), <<255, 254, 10>>,
      BinVariable(Ch("s"), Str(<<"x">>)) \o <<Ch("1")>> }
TrailedBinary == {p \o s : p \in WholeBinary, s \in Trailers}

BinaryInputs ==
    {g.b : g \in GoodBinary} \cup BadCloseBinary \cup BadKeyBinary \cup BadCountBinary
        \cup WholeBinary \cup CutBinary \cup TrailedBinary

\* texts of no format, shorter and longer than the snippet of the error:
\* n different characters from '"' on, n times 'é', whitespace before them
Counting(n) == [i \in 1..n |-> 33 + i]
UnknownTexts ==
    {Counting(n) : n \in {1, SnippetLen - 1, SnippetLen, SnippetLen + 1, SnippetLen + 30}}
        \cup { [i \in 1..(SnippetLen + 1) |-> 233],
               <<32, 10>> \o Counting(SnippetLen + 1),
               <<160>> \o Counting(SnippetLen),
               Counting(SnippetLen) \o <<32, 10>> }

Documents ==
    {[w |-> <<>>, kind |-> "xml", p |-> XmlDoc(d)] : d \in XmlInners}
        \cup {[w |-> <<>>, kind |-> "xml", p |-> XmlDeclRest \o d] : d \in RootBodies}
        \cup {[w |-> <<>>, kind |-> "none", p |-> d] : d \in NotationTexts \cup BinaryInputs}
        \cup {[w |-> <<>>, kind |-> "none", p |-> as_bytes(t)] : t \in UnknownTexts}

Messages ==
    {[w |-> w, kind |-> kind, p |-> p] : w \in WsRuns, kind \in SentinelKinds, p \in Payloads}
        \cup Documents

NoParts == [w |-> <<>>, kind |-> "none", p |-> <<>>]
MessageOf(parts_) == parts_.w \o SentinelBytes(parts_.kind) \o parts_.p

(***************************************************************************)
(* The state machine: a caller encodes a tree or receives a message, may   *)
(* cut the sentinel off an encoder's output, and calls one decode entry    *)
(* point on what it holds.                                                 *)
(***************************************************************************)
Orders == {"asc", "desc"}
NoRoute == [codec |-> "none", input |-> <<>>, snippet |-> <<>>]
RouteOf(d) == [codec |-> d.codec, input |-> d.input, snippet |-> d.snippet]

\* what the caller holds is a String (an encoder's to_string) or bytes
IsText(f) == f \in {"xml", "xml_indent", "notation", "notation_payload"}
WireBytes == IF IsText(fmt) THEN as_bytes(wire) ELSE wire
WireText == IF IsText(fmt) THEN [ok |-> TRUE, val |-> wire] ELSE from_utf8(wire)
Holding == pc \in {"encoded", "stripped", "input"}

Init ==
    /\ pc = "idle"
    /\ value = NoValue
    /\ fmt = "none"
    /\ wire = <<>>
    /\ parts = NoParts
    /\ decoder = "none"
    /\ route = NoRoute
    /\ result = NoResult

\* ser::binary::to_bytes(&value)
BinaryToBytes ==
    /\ pc = "idle"
    /\ \E i \in 1..ValueCount, d \in 0..MaxNest, ord \in Orders :
        /\ value' = ValueAt(i, d)
        /\ wire' = to_bytes(ValueAt(i, d), ord)
    /\ fmt' = "binary"
    /\ pc' = "encoded"
    /\ UNCHANGED <<parts, decoder, route, result>>

\* ser::xml::to_string(&value, do_indent)
XmlToString ==
    /\ pc = "idle"
    /\ \E i \in 1..ValueCount, d \in 0..MaxNest, ord \in Orders, do_indent \in BOOLEAN :
        /\ value' = ValueAt(i, d)
        /\ wire' = xml_to_string(ValueAt(i, d), do_indent, ord)
        /\ fmt' = IF do_indent THEN "xml_indent" ELSE "xml"
    /\ pc' = "encoded"
    /\ UNCHANGED <<parts, decoder, route, result>>

\* ser::notation::to_string(&value)
NotationToString ==
    /\ pc = "idle"
    /\ \E i \in 1..ValueCount, d \in 0..MaxNest, ord \in Orders :
        /\ value' = ValueAt(i, d)
        /\ wire' = notation_to_string(ValueAt(i, d), ord)
    /\ fmt' = "notation"
    /\ pc' = "encoded"
    /\ UNCHANGED <<parts, decoder, route, result>>

\* &encoded[SENTINEL.len()..], as the round-trip tests cut the sentinel off
StripSentinel ==
    /\ pc = "encoded"
    /\ fmt \in {"binary", "notation"}
    /\ wire' = Tail2(wire, 1 + (IF fmt = "binary" THEN Len(LLSDBINARYSENTINEL)
                                ELSE Len(LLSDNOTATIONSENTINEL)))
    /\ fmt' = IF fmt = "binary" THEN "binary_payload" ELSE "notation_payload"
    /\ pc' = "stripped"
    /\ UNCHANGED <<value, parts, decoder, route, result>>

\* a message arrives from outside: any bytes
Receive ==
    /\ pc = "idle"
    /\ \E m \in Messages :
        /\ parts' = m
        /\ wire' = MessageOf(m)
    /\ fmt' = "bytes"
    /\ pc' = "input"
    /\ UNCHANGED <<value, decoder, route, result>>

\* de::binary::from_bytes
BinaryFromBytes ==
    /\ Holding
    /\ result' = binary_from_bytes(WireBytes)
    /\ route' = [codec |-> "binary", input |-> WireBytes, snippet |-> <<>>]
    /\ decoder' = "binary::from_bytes"
    /\ pc' = "decoded"
    /\ UNCHANGED <<value, fmt, wire, parts>>

\* de::xml::from_reader, reading the bytes of the message
XmlFromReader ==
    /\ Holding
    /\ result' = xml_from_reader(WireBytes)
    /\ route' = [codec |-> "xml", input |-> WireBytes, snippet |-> <<>>]
    /\ decoder' = "xml::from_reader"
    /\ pc' = "decoded"
    /\ UNCHANGED <<value, fmt, wire, parts>>

\* LLSDStreamChars::parse, the text-mode decoder
LLSDStreamCharsParse ==
    /\ Holding
    /\ WireText.ok
    /\ result' = LLSDStreamChars_parse(WireText.val)
    /\ route' = [codec |-> "notation_str", input |-> WireText.val, snippet |-> <<>>]
    /\ decoder' = "LLSDStreamChars::parse"
    /\ pc' = "decoded"
    /\ UNCHANGED <<value, fmt, wire, parts>>

\* LLSDStreamBytes::parse, the byte-mode decoder
LLSDStreamBytesParse ==
    /\ Holding
    /\ result' = LLSDStreamBytes_parse(WireBytes)
    /\ route' = [codec |-> "notation_bytes", input |-> WireBytes, snippet |-> <<>>]
    /\ decoder' = "LLSDStreamBytes::parse"
    /\ pc' = "decoded"
    /\ UNCHANGED <<value, fmt, wire, parts>>

\* de::auto_from_str
AutoFromStr ==
    /\ Holding
    /\ WireText.ok
    /\ result' = auto_from_str(WireText.val).result
    /\ route' = RouteOf(auto_from_str(WireText.val))
    /\ decoder' = "auto_from_str"
    /\ pc' = "decoded"
    /\ UNCHANGED <<value, fmt, wire, parts>>

\* de::auto_from_bytes
AutoFromBytes ==
    /\ Holding
    /\ result' = auto_from_bytes(WireBytes).result
    /\ route' = RouteOf(auto_from_bytes(WireBytes))
    /\ decoder' = "auto_from_bytes"
    /\ pc' = "decoded"
    /\ UNCHANGED <<value, fmt, wire, parts>>

Next ==
    \/ BinaryToBytes
    \/ XmlToString
    \/ NotationToString
    \/ StripSentinel
    \/ Receive
    \/ BinaryFromBytes
    \/ XmlFromReader
    \/ LLSDStreamCharsParse
    \/ LLSDStreamBytesParse
    \/ AutoFromStr
    \/ AutoFromBytes

Spec == Init /\ [][Next]_vars

(***************************************************************************)
(* Properties                                                              *)
(***************************************************************************)
RECURSIVE HasNaN(_)
\* the tree holds a Real that is NaN, which equals nothing, itself included
HasNaN(x) ==
    IF x.t = "Real" THEN IsNaN(x.v)
    ELSE IF x.t = "Array" THEN \E i \in 1..Len(x.v) : HasNaN(x.v[i])
    ELSE IF x.t = "Map" THEN \E k \in DOMAIN x.v : HasNaN(x.v[k])
    ELSE FALSE

\* both calls fail, or both succeed with equal trees
SameOutcome(r, q) == r.ok = q.ok /\ (r.ok => ValueEq(r.val, q.val))

Decoded(entry) == pc = "decoded" /\ decoder = entry
RoundTrip == result.ok /\ ValueEq(result.val, value)

\* C1: binary round-trip.  For every tree (NaN apart), from_bytes on the
\* output of to_bytes with the leading sentinel removed succeeds and yields
\* a tree equal to the one encoded.
C1_BinaryRoundTrip ==
    (Decoded("binary::from_bytes") /\ fmt = "binary_payload" /\ ~HasNaN(value))
        => RoundTrip

\* C2: XML round-trip.  For every tree without NaN and either do_indent, the
\* XML decoder on the document of to_string succeeds and yields an equal
\* tree, every node keeping its variant and payload.
C2_XmlRoundTrip ==
    (Decoded("xml::from_reader") /\ fmt \in {"xml", "xml_indent"} /\ ~HasNaN(value))
        => RoundTrip

\* C3: notation round-trip.  For every tree without NaN, the byte-mode
\* decoder on the text of to_string with the leading sentinel removed
\* succeeds and yields an equal tree, nested maps and any characters in
\* keys and strings included.
C3_NotationRoundTrip ==
    (Decoded("LLSDStreamBytes::parse") /\ fmt = "notation_payload" /\ ~HasNaN(value))
        => RoundTrip

\* the text holds a length-counted production b(N) or s(N)
HasSizedProduction(text) ==
    \E i \in 1..(Len(text) - 1) : text[i] \in {Ch("b"), Ch("s")} /\ text[i + 1] = Ch("(")

\* C4: notation cross-mode equivalence.  On every text without b(N) or s(N),
\* non-ASCII strings and keys included, the text-mode decoder on the text and
\* the byte-mode decoder on its UTF-8 bytes both fail or both succeed with
\* equal trees.
C4_CrossModeEquivalence ==
    (Decoded("LLSDStreamChars::parse") /\ ~HasSizedProduction(WireText.val))
        => SameOutcome(result, LLSDStreamBytes_parse(as_bytes(WireText.val)))

\* the codec and the result that the priority order (a) to (d) names for msg
PriorityChoice(msg) ==
    Bind([t \in {trim_ascii_start(msg)} |->
        Bind([nsentinel \in {as_bytes(trim_end(LLSDNOTATIONSENTINEL))} |->
        IF StartsWith(msg, LLSDBINARYSENTINEL) THEN
            [codec |-> "binary",
             result |-> binary_from_bytes(Tail2(msg, Len(LLSDBINARYSENTINEL) + 1))]
        ELSE IF StartsWith(t, nsentinel) THEN
            [codec |-> "notation_bytes",
             result |-> notation_from_bytes(Tail2(t, Len(nsentinel) + 1))]
        ELSE IF StartsWith(t, as_bytes(LLSDXMLSENTINEL)) THEN
            [codec |-> "xml", result |-> xml_from_reader(t)]
        ELSE IF msg # <<>> /\ msg[1] \in {Ch("{"), Ch("[")} THEN
            [codec |-> "binary", result |-> binary_from_bytes(msg)]
        ELSE [codec |-> "none", result |-> Err(NotRecognized)]])])

\* C5: auto_from_bytes invokes exactly the one decoder the priority order
\* names: binary after an exact sentinel at offset 0, else notation after
\* trimmed whitespace and its sentinel, else XML after trimmed whitespace and
\* "<?xml", else binary on the whole input that starts with '{' or '[', else
\* an error; and it returns that decoder's result unchanged.
C5_PriorityOrder ==
    Decoded("auto_from_bytes")
        => /\ route.codec = PriorityChoice(WireBytes).codec
           /\ IF PriorityChoice(WireBytes).codec = "none" THEN ~result.ok
              ELSE (result = PriorityChoice(WireBytes).result)

\* msg carries none of the three sentinels
NoSentinel(msg) ==
    /\ ~StartsWith(msg, LLSDBINARYSENTINEL)
    /\ ~StartsWith(trim_ascii_start(msg), as_bytes(trim_end(LLSDNOTATIONSENTINEL)))
    /\ ~StartsWith(trim_ascii_start(msg), as_bytes(LLSDXMLSENTINEL))

\* C6: binary fallback.  On every input without a sentinel whose first byte
\* is '{' or '[', whatever bytes follow, auto_from_bytes returns exactly what
\* binary from_bytes returns on it; every other input without a sentinel is
\* rejected as format not recognized.
C6_BinaryFallback ==
    (Decoded("auto_from_bytes") /\ NoSentinel(WireBytes))
        => IF WireBytes # <<>> /\ WireBytes[1] \in {Ch("{"), Ch("[")}
             THEN (result = binary_from_bytes(WireBytes))
           ELSE ~result.ok /\ result.err = NotRecognized

\* the result of the entry point that is in decoder, on other bytes
SameEntryOn(b) ==
    IF decoder = "auto_from_bytes" THEN auto_from_bytes(b).result
    ELSE auto_from_str(from_utf8(b).val).result

AutoDecoded == pc = "decoded" /\ decoder \in {"auto_from_str", "auto_from_bytes"} /\ fmt = "bytes"
AsciiWs(w) == \A i \in 1..Len(w) : is_ascii_whitespace(w[i])
AnyWs(w) == \A i \in 1..Len(w) : IsWhitespace(w[i])

\* the two halves of sentinel tolerance, for the runs w that ws admits
NewlineTolerated ==
    (AutoDecoded /\ parts.kind = "notation_nl" /\ parts.w = <<>>)
        => (result = SameEntryOn(SentinelBytes("notation") \o parts.p))
WhitespaceTolerated(ws(_)) ==
    (AutoDecoded /\ parts.kind \in {"notation", "notation_nl", "xml"} /\ ws(parts.w))
        => (result = SameEntryOn(SentinelBytes(parts.kind) \o parts.p))

\* C7: sentinel tolerance.  For every notation payload, auto_from_str and
\* auto_from_bytes give the same result with and without the newline after
\* the notation sentinel; and for every run of leading whitespace, prefixing
\* it to an input that starts with the notation or XML sentinel does not
\* change the result.
C7_SentinelTolerance == NewlineTolerated /\ WhitespaceTolerated(AnyWs)

\* C7 (amended): the same, for every run of leading ASCII whitespace as
\* u8::is_ascii_whitespace has it: space, tab, line feed, form feed and
\* carriage return.
C7_SentinelToleranceAscii == NewlineTolerated /\ WhitespaceTolerated(AsciiWs)

C7_Witness ==
    /\ AutoDecoded
    /\ decoder = "auto_from_bytes"
    /\ parts.kind = "notation_nl"
    /\ Len(parts.w) = MaxWs
    /\ AsciiWs(parts.w)
    /\ 9 \in {parts.w[i] : i \in 1..Len(parts.w)}
    /\ result.ok
    /\ result.val.t = "Map"

\* C8: the binary sentinel is matched only at offset 0.  With a non-empty
\* run of whitespace before the binary sentinel, auto_from_bytes never
\* invokes the binary decoder on the payload and the call is rejected; with
\* the sentinel at offset 0 it invokes the binary decoder on the payload.
C8_BinarySentinelAtOffset0 ==
    (Decoded("auto_from_bytes") /\ fmt = "bytes" /\ parts.kind = "binary")
        => IF parts.w # <<>>
             THEN ~(route.codec = "binary" /\ route.input = parts.p) /\ ~result.ok
           ELSE route.codec = "binary" /\ route.input = parts.p

C8_Witness ==
    /\ Decoded("auto_from_bytes")
    /\ fmt = "bytes"
    /\ parts.kind = "binary"
    /\ parts.w # <<>>
    /\ binary_from_bytes(parts.p).ok
    /\ ~result.ok

\* the tree a source that lists the key a n times decodes to under the policy
LastWins(n, nested) ==
    IF nested THEN Array(<<MapOf1(<<Ch("a")>>, Integer(n))>>)
    ELSE MapOf1(<<Ch("a")>>, Integer(n))

\* the decoder was handed, as its whole input, a map source with duplicates
DupDecoded(entries, kind, source) ==
    /\ pc = "decoded"
    /\ decoder \in entries
    /\ fmt = "bytes"
    /\ parts.w = <<>>
    /\ parts.kind = kind
    /\ parts.p = source

\* C9: duplicate-key policy.  In the binary, XML and notation decoders, a map
\* source that lists one key more than once decodes successfully to a Map
\* that holds the key once, with the value of its last occurrence.
C9_DuplicateKeys ==
    \A n \in 2..MaxDup :
        /\ DupDecoded({"binary::from_bytes"}, "none", DupBinary(n))
            => (result = Ok(LastWins(n, FALSE)))
        /\ DupDecoded({"binary::from_bytes"}, "none",
                      <<Ch("[")>> \o U32BE(1) \o DupBinary(n) \o <<Ch("]")>>)
            => (result = Ok(LastWins(n, TRUE)))
        /\ DupDecoded({"xml::from_reader"}, "xml", DupXml(n, FALSE))
            => (result = Ok(LastWins(n, FALSE)))
        /\ DupDecoded({"xml::from_reader"}, "xml", DupXml(n, TRUE))
            => (result = Ok(LastWins(n, TRUE)))
        /\ DupDecoded({"LLSDStreamChars::parse", "LLSDStreamBytes::parse"}, "none", DupNotation(n))
            => (result = Ok(LastWins(n, FALSE)))
        /\ DupDecoded({"LLSDStreamChars::parse", "LLSDStreamBytes::parse"}, "none",
                      <<Ch("[")>> \o DupNotation(n) \o <<Ch("]")>>)
            => (result = Ok(LastWins(n, TRUE)))

\* C10: the XML decoder decodes an empty integer element, written
\* <integer/> or <integer></integer>, to Integer(0) and not to an error.
C10_EmptyInteger ==
    (/\ Decoded("xml::from_reader")
     /\ fmt = "bytes"
     /\ parts.w = <<>>
     /\ parts.kind = "xml"
     /\ parts.p \in {XmlDeclRest \o Str(<<"<","l","l","s","d",">","<","i","n","t","e","g","e","r","/",">","<","/","l","l","s","d",">">>),
                     XmlDeclRest \o Str(<<"<","l","l","s","d",">","<","i","n","t","e","g","e","r",">","<","/","i","n","t","e","g","e","r",">","<","/","l","l","s","d",">">>)})
        => (result = Ok(Integer(0)))

\* the XML decoder was handed the document that wraps inner in <llsd>
XmlDecodedDoc(inner) ==
    /\ Decoded("xml::from_reader")
    /\ fmt = "bytes"
    /\ parts = [w |-> <<>>, kind |-> "xml", p |-> XmlDoc(inner)]

\* the text spells the UUID u: its hex digits, in order, are u's bytes
Spells(text, u) == hex_encode(u) = Lowercase(Retain(trim(text), {45}))

\* C11: the XML decoder decodes an empty uuid element, <uuid/> or
\* <uuid></uuid>, to the nil UUID; a uuid element with text decodes to the
\* UUID the text spells or to an error; and the empty element of a type whose
\* text cannot be empty (real, boolean, date) is an error, not a default.
C11_EmptyUuid ==
    /\ \A d \in BothEmpty(Str(<<"u","u","i","d">>)) \cup {Element(Str(<<"u","u","i","d">>), Str(<<" "," ">>))} :
            XmlDecodedDoc(d) => (result = Ok(UUID(NilUuid)))
    /\ \A t \in UuidTexts \cup {Str(<<" ","6","7","1","5","3","d","5","b","-","3","6","5","9","-","a","f","b","4","-","8","5","1","0","-","a","d","d","a","2","c","0","3","4","6","4","9","\n">>)} :
            (XmlDecodedDoc(Element(Str(<<"u","u","i","d">>), t)) /\ result.ok)
                => (result.val.t = "UUID" /\ Spells(t, result.val.v))
    /\ \A n \in {Str(<<"r","e","a","l">>), Str(<<"b","o","o","l","e","a","n">>), Str(<<"d","a","t","e">>)} : \A d \in BothEmpty(n) :
            XmlDecodedDoc(d) => ~result.ok

C11_Witness ==
    /\ XmlDecodedDoc(EmptyElement(Str(<<"u","u","i","d">>)))
    /\ result = Ok(UUID(NilUuid))

RECURSIVE Hollow(_)
\* the tree is built of maps and arrays alone: its leaves are empty containers
Hollow(x) ==
    IF x.t = "Array" THEN \A i \in 1..Len(x.v) : Hollow(x.v[i])
    ELSE IF x.t = "Map" THEN \A k \in DOMAIN x.v : Hollow(x.v[k])
    ELSE FALSE

\* a codec's decoder ran on what that codec's encoder wrote for value
BinaryRoundTripped == Decoded("binary::from_bytes") /\ fmt = "binary_payload"
XmlRoundTripped == Decoded("xml::from_reader") /\ fmt \in {"xml", "xml_indent"}
NotationRoundTripped ==
    /\ pc = "decoded"
    /\ decoder \in {"LLSDStreamBytes::parse", "LLSDStreamChars::parse"}
    /\ fmt = "notation_payload"

\* C12: empty containers round-trip in every codec.  For the binary, the XML
\* and the notation codec, decoding the encoding of a tree that holds an empty
\* Map or an empty Array, at top level or inside another container, succeeds
\* and yields the tree encoded, the empty container in its place.
C12_EmptyContainers ==
    (Hollow(value) /\ (BinaryRoundTripped \/ XmlRoundTripped \/ NotationRoundTripped))
        => RoundTrip

\* the XML decoder was handed the document with body after its declaration
XmlDecodedBody(body) ==
    /\ Decoded("xml::from_reader")
    /\ fmt = "bytes"
    /\ parts = [w |-> <<>>, kind |-> "xml", p |-> XmlDeclRest \o body]

\* C13: the XML decoder returns a value only for one llsd root element that
\* wraps one value element.  An llsd element without a value element or with
\* two or more, a second llsd element, a root element of another name and a
\* document without an llsd element are decode errors; the one value of the
\* one llsd element is returned.
C13_OneRootOneValue ==
    /\ \A d \in NoValueBodies \cup TwoValueBodies \cup TwoRootBodies
                \cup OtherRootBodies \cup NoRootBodies :
            XmlDecodedBody(d) => ~result.ok
    /\ XmlDecodedBody(OneValueBody) => (result = Ok(Integer(1)))

C13_Witness ==
    /\ XmlDecodedBody(OneValueBody \o Str(<<"\n">>) \o Element(Str(<<"l","l","s","d">>), Two))
    /\ result = Err("More than one <llsd> block in data")

\* C14: the XML decoder maps each tag name to the variant of that name, undef
\* to Undefined, boolean to Boolean, integer to Integer, real to Real, string
\* to String, uri to URI, uuid to UUID, date to Date, binary to Binary, map to
\* Map and array to Array; another tag name where a value is expected is a
\* decode error.
C14_TagNames ==
    /\ \A tv \in TaggedValues :
            XmlDecodedDoc(tv.doc) => (result.ok /\ result.val.t = tv.t)
    /\ \A d \in UnknownTags : XmlDecodedDoc(d) => ~result.ok

\* a notation decoder was handed text as its whole input
NotationDecoded(entry, text) ==
    /\ Decoded(entry)
    /\ fmt = "bytes"
    /\ parts = [w |-> <<>>, kind |-> "none", p |-> text]

\* the errors by which the text mode says a production is not supported in it
UnsupportedInTextMode ==
    { "Byte-counted binary data inside UTF-8 won't work.",
      "Byte-counted string data inside UTF-8 won't work." }

\* C15: the text-mode notation decoder rejects the length-counted productions
\* b(N)"..." and s(N)"..." with an explicit error that says they are not
\* supported in this mode, and returns no Binary or String for them.
C15_SizedRejectedInTextMode ==
    \A text \in SizedTexts :
        NotationDecoded("LLSDStreamChars::parse", text)
            => (~result.ok /\ result.err \in UnsupportedInTextMode)

C15_Witness ==
    /\ NotationDecoded("LLSDStreamChars::parse", Str(<<"s","(","2",")","\"","a","b","\"">>))
    /\ result = Err("Byte-counted string data inside UTF-8 won't work.")
    /\ LLSDStreamBytes_parse(parts.p) = Ok(String(Str(<<"a","b">>)))

\* C16: the text-mode notation decoder accepts the binary forms b16"hex" and
\* b64"base64", the form the notation encoder writes for every Binary, and
\* decodes them to the Binary the byte-mode decoder decodes them to.
C16_EncodedBinaryInTextMode ==
    /\ \A text \in EncodedBinaryTexts :
            NotationDecoded("LLSDStreamChars::parse", text)
                => (result.ok /\ result = LLSDStreamBytes_parse(text))
    /\ (Decoded("LLSDStreamChars::parse") /\ fmt = "notation_payload" /\ value.t = "Binary")
            => RoundTrip

\* the call came back to its caller, with a value or with an error
Returned == result.err # PanicErr

\* C17: every decode call returns one value tree or one error and never
\* aborts the program; in particular the byte-mode notation decoder returns
\* Ok or Err on s(N)"..." and b(N)"...", for every N that the length parser
\* accepts and every amount of input after it.
C17_AlwaysReturns == pc = "decoded" => Returned

\* the binary encoder has returned to_bytes(value)
BinaryEncoded == pc = "encoded" /\ fmt = "binary"

\* wire is a literal of n bytes, then the encoding of value from offset n on
\* (offsets count from 0), and the decoder's sentinel is the encoder's prefix
BinaryPrefixOf(n) ==
    /\ Len(LLSDBINARYPREFIX) = n
    /\ StartsWith(wire, Str(<<"<","?"," ","L","L","S","D","/","B","i","n","a","r","y"," ","?",">">>) \o <<10>>)
    /\ StartsWith(wire, LLSDBINARYPREFIX)
    /\ \E ord \in Orders : Tail2(wire, n + 1) = bin_generate_value(value, ord)
    /\ LLSDBINARYSENTINEL = LLSDBINARYPREFIX

\* C18: the output of to_bytes(v) begins with the literal "<? LLSD/Binary ?>"
\* and a newline, the literal is 19 bytes long, the encoding of v starts at
\* byte offset 19, and the decoder's sentinel constant is the same bytes as
\* the encoder's.
C18_BinaryPrefix19 == BinaryEncoded => BinaryPrefixOf(19)

\* C18 (amended): the same, with a literal of 18 bytes and the encoding of v
\* at byte offset 18.
C18_BinaryPrefix18 == BinaryEncoded => BinaryPrefixOf(18)

C18_Witness ==
    /\ BinaryEncoded
    /\ value = Integer(42)
    /\ wire = Str(<<"<","?"," ","L","L","S","D","/","B","i","n","a","r","y"," ","?",">">>) \o <<10, Ch("i"), 0, 0, 0, 42>>

\* the binary decoder was handed b as its whole input
BinaryDecoded(b) ==
    /\ Decoded("binary::from_bytes")
    /\ fmt = "bytes"
    /\ parts = [w |-> <<>>, kind |-> "none", p |-> b]

\* C19: the binary decoder accepts a Map only as '{', a 4-byte big-endian
\* count n, exactly n entries that each start with the key tag 'k', then '}',
\* and an Array only as '[', a count n, exactly n values, then ']'.  A wrong
\* closing byte, or an entry that starts with another byte than 'k', makes
\* the whole decode fail.
C19_BinaryContainers ==
    /\ \A g \in GoodBinary : BinaryDecoded(g.b) => (result = Ok(g.val))
    /\ \A b \in BadCloseBinary \cup BadKeyBinary \cup BadCountBinary :
            BinaryDecoded(b) => ~result.ok

C19_Witness ==
    /\ BinaryDecoded(BinContainer(Ch("["), 1,
                                  BinContainer(Ch("{"), 1, BinEntry(Ch("s"), Str(<<"a">>), BinInt(1)), Str(<<"}">>)),
                                  Str(<<"]">>)))
    /\ result = Err("Binary LLSD map key had other than expected 'k'")

RECURSIVE LiteralChars(_, _, _)
\* the characters of the literal of text that was opened by delim just before
\* p: up to the first delim no backslash stands before, a backslash giving
\* the character after it and every other character itself
LiteralChars(text, p, delim) ==
    IF p > Len(text) \/ text[p] = delim THEN <<>>
    ELSE IF text[p] = 92 /\ p < Len(text)
        THEN <<text[p + 1]>> \o LiteralChars(text, p + 2, delim)
    ELSE <<text[p]>> \o LiteralChars(text, p + 1, delim)

\* C20: for a notation string literal opened by a double or a single quote,
\* in both modes, the decoded String is the characters between the opening
\* quote and the first unescaped occurrence of the same quote, a backslash
\* and a character giving that character; every other character, whitespace
\* included, is kept unchanged and in order.
C20_QuotedString ==
    \A text \in QuotedTexts :
        (\/ NotationDecoded("LLSDStreamChars::parse", as_bytes(text))
         \/ NotationDecoded("LLSDStreamBytes::parse", as_bytes(text)))
            => (result = Ok(String(LiteralChars(text, 2, text[1]))))


\* the notation encoder has returned to_string(value)
NotationEncoded == pc = "encoded" /\ fmt = "notation"

\* C21: the notation encoder writes a Date as the letter d and a quoted RFC
\* 3339 UTC string with seconds precision, the form the decoder's d
\* production requires, and decoding the encoder's output for Date(t) yields
\* Date(t), in both modes of the decoder.
C21_DateRoundTrip ==
    /\ (NotationEncoded /\ value.t = "Date")
            => (wire = LLSDNOTATIONPREFIX \o <<Ch("d"), 34>> \o to_rfc3339(value.v) \o <<34>>)
    /\ (NotationRoundTripped /\ value.t = "Date") => RoundTrip


\* the maximal run of alphabetic characters at the start of text
LeadingWord(text) == SubSeq(text, 1, AlphaRun(text, 1) - 1)

TrueWords == { Str(<<"t">>), Str(<<"T">>), Str(<<"t","r","u","e">>), Str(<<"T","R","U","E">>) }
FalseWords == { Str(<<"f">>), Str(<<"F">>), Str(<<"f","a","l","s","e">>), Str(<<"F","A","L","S","E">>) }

\* a notation decoder, in either mode, ran on a message received
NotationRan ==
    /\ pc = "decoded"
    /\ fmt = "bytes"
    /\ decoder \in {"LLSDStreamChars::parse", "LLSDStreamBytes::parse"}
    /\ parts.w = <<>>
    /\ parts.kind = "none"

\* a notation decoder, in either mode, was handed text as its whole input
NotationDecodedText(text) ==
    /\ NotationRan
    /\ parts = [w |-> <<>>, kind |-> "none", p |-> as_bytes(text)]

\* C22: the notation decoder decodes a token that starts with one of t, T, f,
\* F to a Boolean exactly when the maximal run of alphabetic characters that
\* starts there is one of t, T, true, TRUE (true) or f, F, false, FALSE
\* (false); any other run, mixed-case spellings included, is a decode error;
\* the single characters 0 and 1 decode to false and true.
C22_BooleanWords ==
    NotationRan =>
        /\ \A text \in BooleanTexts :
                NotationDecodedText(text)
                    => (result = (IF LeadingWord(text) \in TrueWords THEN Ok(Boolean(TRUE))
                                  ELSE IF LeadingWord(text) \in FalseWords THEN Ok(Boolean(FALSE))
                                  ELSE Err(result.err)))
        /\ NotationDecodedText(Str(<<"0">>)) => (result = Ok(Boolean(FALSE)))
        /\ NotationDecodedText(Str(<<"1">>)) => (result = Ok(Boolean(TRUE)))
        /\ \A l \in BooleanLists :
                NotationDecodedText(l.text)
                    => (IF l.val = NoValue THEN ~result.ok ELSE result = Ok(l.val))

\* what the notation decoder that ran returns on text
DecodeAgain(text) ==
    IF decoder = "LLSDStreamChars::parse" THEN LLSDStreamChars_parse(text)
    ELSE LLSDStreamBytes_parse(text)

\* C23: the notation decoder skips only space and newline between tokens.
\* Any number of spaces or newlines put before a value, before ':' or before
\* ',', '}' or ']' leaves the outcome of the decode what it is without them;
\* a tab or another character in one of those places is not skipped and
\* makes the decode fail.
C23_SkippedWhitespace ==
    NotationRan =>
        \A l \in TokenLists : \A k \in l.slots :
            /\ \A ws \in SkippedRuns :
                    (parts.p = Spaced(l.toks, k, ws))
                        => (result = DecodeAgain(Concat(l.toks)))
            /\ \A ws \in OtherRuns :
                    (parts.p = Spaced(l.toks, k, ws)) => ~result.ok


\* the first n characters of text, or all of it when it has fewer
FirstChars(text, n) == [i \in 1..(IF Len(text) < n THEN Len(text) ELSE n) |-> text[i]]

\* auto_from_str was called on a text that, trimmed, starts with no sentinel
UnrecognisedStr ==
    /\ Decoded("auto_from_str")
    /\ ~StartsWith(trim_start(WireText.val), trim_end(LLSDNOTATIONSENTINEL))
    /\ ~StartsWith(trim_start(WireText.val), LLSDXMLSENTINEL)

\* auto_from_bytes was called on bytes that none of the cases (a) to (d)
\* takes, and handed them to no decoder
UnrecognisedBytes ==
    /\ Decoded("auto_from_bytes")
    /\ PriorityChoice(WireBytes).codec = "none"
    /\ route.codec = "none"

\* C24: when auto_from_str or auto_from_bytes does not recognise its input,
\* the call fails with the error "format not recognized", and the snippet in
\* the error is the first min(60, length) characters of the input, of the
\* trimmed input for auto_from_str, never more than 60 characters, for an
\* input of any length.
C24_BoundedSnippet ==
    /\ UnrecognisedStr
            => /\ result = Err(NotRecognized)
               /\ route.snippet = FirstChars(trim_start(WireText.val), 60)
               /\ Len(route.snippet) <= 60
    /\ UnrecognisedBytes
            => /\ result = Err(NotRecognized)
               /\ WireText.ok => (route.snippet = FirstChars(WireText.val, 60))
               /\ Len(route.snippet) <= 60


\* C25: trailing-comma tolerance in notation.  For a map or array literal,
\* one comma put immediately before the closing '}' or ']' leaves the outcome
\* of the decode what it is without the comma; a comma that no value stands
\* before, two commas in a row or a comma right after the opening bracket, is
\* a decode error.
C25_TrailingComma ==
    NotationRan =>
        /\ \A l \in CommaLiterals :
                NotationDecodedText(l.body \o Str(<<",">>) \o l.close)
                    => (result = DecodeAgain(l.body \o l.close))
        /\ \A text \in BadCommaTexts : NotationDecodedText(text) => ~result.ok


\* where the cursor of the notation decoder that ran stands when parse_value
\* returns on text: the number of characters consumed
Consumed(text) ==
    nt_parse_value(IF decoder = "LLSDStreamChars::parse" THEN "chars" ELSE "bytes", text, 1).pos - 1

\* C26: when parse_map returns successfully the cursor has consumed the input
\* up to and including the map's own closing '}' and no character after it,
\* and parse_array has consumed exactly through its closing ']'; so the
\* character after a nested map or array is still there for the enclosing
\* parser, and a container nested in another decodes to the tree it spells.
C26_CursorAfterContainer ==
    NotationRan =>
        /\ \A c \in ContainerLiterals : \A f \in Followers :
                NotationDecodedText(c \o f) => (result.ok /\ Consumed(c \o f) = Len(c))
        /\ \A l \in NestedLiterals : NotationDecodedText(l.text) => (result = Ok(l.val))


\* binary from_bytes decodes p and consumes all of it
DecodesWhole(p) == bin_parse_value(p, 1).ok /\ bin_parse_value(p, 1).pos = Len(p) + 1

\* the error of Read::read_exact at the end of the input
UnexpectedEof == "failed to fill whole buffer"

\* C27: premature end of input in binary.  For every byte sequence p that
\* binary from_bytes decodes by consuming all of p, from_bytes on a proper
\* prefix of p returns the end-of-input error and never a value: no partly
\* built tree is returned.
C27_BinaryCutShort ==
    (Decoded("binary::from_bytes") /\ fmt = "bytes")
        => \A p \in WholeBinary :
                (\E cut \in ProperPrefixes(p) : BinaryDecoded(cut)) /\ DecodesWhole(p)
                    => (result = Err(UnexpectedEof))

C27_Witness ==
    /\ \E g \in GoodBinary :
            /\ g.val = MapOf1(Str(<<"a">>), Array(<<Integer(1)>>))
            /\ DecodesWhole(g.b)
            /\ BinaryDecoded(SubSeq(g.b, 1, Len(g.b) - 1))
    /\ result = Err(UnexpectedEof)


\* C28: the notation i production decodes an optional sign and a run of
\* decimal digits to Integer(n) exactly when n is within the signed 32-bit
\* range -2147483648..2147483647; a run whose value is outside that range, an
\* empty run, and a run with a sign after its first position are decode
\* errors, never a wrapped or truncated Integer.
C28_IntegerRange ==
    NotationRan =>
        /\ \A r \in IntegerRuns : \A f \in AfterRun :
                NotationDecodedText(Str(<<"i">>) \o r.run \o f)
                    => (IF r.ok THEN result = Ok(Integer(r.n)) ELSE ~result.ok)
        /\ \A l \in IntegerLists :
                NotationDecodedText(l.text)
                    => (IF l.val = NoValue THEN ~result.ok ELSE result = Ok(l.val))

C28_Witness ==
    /\ NotationDecodedText(Str(<<"i","4","2","9","4","9","6","7","3","3","8">>))
    /\ ~result.ok
    /\ DecodeAgain(Str(<<"i","-","2","1","4","7","4","8","3","6","4","8">>)) = Ok(Integer((-2147483647) - 1))


\* an auto-detecting entry point ran on what an encoder returned
AutoOnEncoded(entry, formats) == Decoded(entry) /\ fmt \in formats

\* C29: each encoder's output is recognised by the auto-detecting decoder as
\* its own format.  auto_from_bytes(to_bytes(v)) returns what the binary
\* decoder returns on the payload after the sentinel; auto_from_str of the
\* notation encoder's string returns what the notation text decoder returns
\* on the text after the sentinel; auto_from_str of the XML encoder's string
\* returns what the XML decoder returns on the document.  No encoder output
\* goes to another codec or is rejected as unrecognised.
C29_OwnFormat ==
    /\ AutoOnEncoded("auto_from_bytes", {"binary"})
            => /\ route.codec = "binary"
               /\ result = binary_from_bytes(Tail2(wire, Len(LLSDBINARYSENTINEL) + 1))
    /\ AutoOnEncoded("auto_from_str", {"notation"})
            => /\ route.codec = "notation_str"
               /\ result = LLSDStreamChars_parse(Tail2(wire, Len(LLSDNOTATIONSENTINEL) + 1))
    /\ AutoOnEncoded("auto_from_str", {"xml", "xml_indent"})
            => /\ route.codec = "xml"
               /\ result = xml_from_reader(as_bytes(wire))

C29_Witness ==
    /\ AutoOnEncoded("auto_from_str", {"notation"})
    /\ value.t = "Array"
    /\ Len(value.v) > 0
    /\ route.codec = "notation_str"
    /\ result = Ok(value)


\* C30: binary from_bytes decodes one top-level value and ignores what
\* follows it.  For every complete value p and every trailer s, from_bytes
\* on p followed by s succeeds with the tree from_bytes gives on p alone,
\* which for the encoder's outputs is the encoded tree; bytes after the value
\* are never an error.
C30_TrailingBytesIgnored ==
    (Decoded("binary::from_bytes") /\ fmt = "bytes")
        => /\ \A p \in WholeBinary : \A s \in Trailers :
                BinaryDecoded(p \o s)
                    => /\ result.ok
                       /\ result = ToResult(bin_parse_value(p, 1))
                       /\ DecodesWhole(p)
           /\ \A g \in GoodBinary : \A s \in Trailers :
                BinaryDecoded(g.b \o s) => (result = Ok(g.val))

C30_Witness ==
    /\ \E g \in GoodBinary :
            /\ g.val = MapOf1(Str(<<"a">>), Array(<<Integer(1)>>))
            /\ BinaryDecoded(g.b \o <<255, 254, 10>>)
    /\ result = Ok(MapOf1(Str(<<"a">>), Array(<<Integer(1)>>)))

=============================================================================
